---------------------------- MODULE Spec2Model ----------------------------
(***************************************************************************)
(* DeskOpt: the calibration session (core/calibration.py), the background  *)
(* analysis worker (gui/analysis_worker.py) and the main-window handlers   *)
(* that drive them (gui/main_window.py).                                   *)
(*                                                                         *)
(* Numbers.  Pixel coordinates are integers (ImageWidget.mousePressEvent   *)
(* emits int(x), int(y)).  Edge lengths are Euclidean norms, so they are   *)
(* kept exact as SQUARED lengths; a "mean of two norms" is the pair of the *)
(* two squared lengths, and every comparison of such a mean with a         *)
(* threshold is decided in exact integer arithmetic.  A value divided by   *)
(* the scale factor is kept as the exact quotient (numerator, denominator, *)
(* scale).  Python's None is the empty tuple, a present value v is <<v>>.  *)
(***************************************************************************)
EXTENDS Integers, Sequences, FiniteSets, TLC

VARIABLES
    \* ---- CalibrationManager (core/calibration.py) ----
    calibration_points,   \* list of (x, y)
    desk_corners,         \* list of (x, y)
    scale_factor,         \* None or <<scale>>
    \* ---- the last call made on the CalibrationManager through its API ----
    lastOp,               \* name of the method called last
    ret,                  \* what that call gave back: returned value or raised error
    \* ---- DeskOptMainWindow / ImageWidget (gui/main_window.py) ----
    app,                  \* "running" | "aborted" (unhandled exception in a slot)
    current_image_path,   \* None or <<path>>
    mode,                 \* image_widget.mode: "view" | "calibration" | "desk"
    w_calibration_points, \* image_widget.calibration_points
    w_desk_corners,       \* image_widget.desk_corners
    is_analyzing,         \* BOOLEAN
    analysis_worker,      \* None or <<the worker>>
    current_scan_id,      \* None or <<scan id>>
    \* ---- AnalysisWorker (gui/analysis_worker.py): the current worker thread ----
    pc,                   \* position of run()
    is_cancelled,         \* _is_cancelled
    params,               \* params dictionary given at construction
    detected_items,       \* run()'s local
    processed_items,      \* run()'s local
    idx,                  \* index of the item the transform loop is at
    cur,                  \* the item dictionary under construction in the loop
    scan_id,              \* run()'s local
    analysis,             \* run()'s local
    \* ---- signals posted by the worker, not yet delivered to the main thread ----
    sigq,
    \* ---- DatabaseManager tables (core/database.py) ----
    scans,                \* rows the current worker inserted into table scans
    db_items,             \* rows it inserted into table detected_items
    \* ---- history of the current run (observation only) ----
    emitted,              \* every notification the current worker emitted, in order
    run_saves,            \* number of save_scan / save_detected_items calls of the run
    ended,                \* how run() ended: "" while it has not
    raised_stage,         \* the stage whose exception reached run()'s handler, or ""
    interleaved           \* number of user actions handled during the current run

calvars == <<calibration_points, desk_corners, scale_factor>>
apivars == <<lastOp, ret>>
guivars == <<app, current_image_path, mode, w_calibration_points, w_desk_corners,
             is_analyzing, analysis_worker, current_scan_id>>
wrkvars == <<pc, is_cancelled, params, detected_items, processed_items, idx, cur,
             scan_id, analysis>>
dbvars  == <<scans, db_items>>
obsvars == <<emitted, run_saves, ended, raised_stage>>
vars    == <<calvars, apivars, guivars, wrkvars, sigq, dbvars, obsvars, interleaved>>

-----------------------------------------------------------------------------
(* Bounds of the model *)

\* longest list of calibration points / desk corners the model builds
MaxPoints == 5
\* number of user actions the main thread handles while one run is in flight
MaxInterleaved == 2

(* Program constants (src/config.py) *)
MIN_CALIBRATION_PIXELS == 10
MAX_CALIBRATION_PIXELS == 10000

-----------------------------------------------------------------------------
(* Values *)

None == <<>>
Some(v) == <<v>>
IsNone(o) == o = <<>>
Val(o) == o[1]

\* The points the calibration API is called with.  |(6,8) - (0,0)| = 10 is the
\* minimum, |(10006,8) - (6,8)| = 10000 is the maximum, and
\* |(10006,8) - (0,0)| = sqrt(100120100) is irrational and above the maximum.
CalPoints == { <<0, 0>>, <<6, 8>>, <<10006, 8>> }
\* The desk corners the calibration API is called with.
DeskPoints == { <<100, 100>> }
\* The pixel / centimetre values the conversions are called with.
Lengths == { 0, 50 }

-----------------------------------------------------------------------------
(* Exact arithmetic on Euclidean norms *)

\* floor(sqrt(n)), by bisection on [lo, hi]
RECURSIVE ISqrtIn(_, _, _)
ISqrtIn(n, lo, hi) ==
    IF lo >= hi THEN lo
    ELSE LET mid == (lo + hi + 1) \div 2
         IN  IF mid * mid <= n THEN ISqrtIn(n, mid, hi) ELSE ISqrtIn(n, lo, mid - 1)

ISqrt(n) == ISqrtIn(n, 0, 46340)

IsSquare(n) == ISqrt(n) * ISqrt(n) = n

\* |q - p|^2
SqDist(p, q) == (q[1] - p[1]) * (q[1] - p[1]) + (q[2] - p[2]) * (q[2] - p[2])

\* sqrt(A) + sqrt(B) < T, for naturals A, B, T
SumSqrtLT(A, B, T) ==
    LET a == ISqrt(A)
        b == ISqrt(B)
    IN  IF IsSquare(A) /\ IsSquare(B) THEN a + b < T
        ELSE IF a + b >= T THEN FALSE
        ELSE IF a + b + 2 <= T THEN TRUE
        ELSE /\ T * T - A - B > 0
             /\ 4 * A * B < (T * T - A - B) * (T * T - A - B)

\* sqrt(A) + sqrt(B) > T, for naturals A, B, T
SumSqrtGT(A, B, T) ==
    LET a == ISqrt(A)
        b == ISqrt(B)
    IN  IF IsSquare(A) /\ IsSquare(B) THEN a + b > T
        ELSE IF a + b >= T THEN TRUE
        ELSE IF a + b + 2 <= T THEN FALSE
        ELSE \/ T * T - A - B < 0
             \/ 4 * A * B > (T * T - A - B) * (T * T - A - B)

\* The mean of the norms of two edges, (sqrt(A) + sqrt(B)) / 2, kept as <<A, B>>.
MeanNorm(A, B) == <<A, B>>
MeanLT(m, t) == SumSqrtLT(m[1], m[2], 2 * t)
MeanGT(m, t) == SumSqrtGT(m[1], m[2], 2 * t)

-----------------------------------------------------------------------------
(* CalibrationManager (core/calibration.py) as operators on its three fields *)

\* A pixel quantity: num / den, or sqrt(num) / den when root holds.
Px(n) == [num |-> n, den |-> 1, root |-> FALSE]
PxOver(n, d) == [num |-> n, den |-> d, root |-> FALSE]
PxNorm(sq) == [num |-> sq, den |-> 1, root |-> TRUE]

\* What a call gives back.
Return(v) == [kind |-> "return", err |-> "", val |-> v]
Raise(e) == [kind |-> "raise", err |-> e, val |-> None]

is_calibration_complete(points) == Len(points) = 4

\* is_desk_complete accepting more than 4 corners
is_desk_complete_AtLeast4(corners) == Len(corners) >= 4

is_desk_complete(corners) == Len(corners) = 4

\* width_pixels and height_pixels of calculate_scale_factor
WidthPixels(points) ==
    MeanNorm(SqDist(points[1], points[2]), SqDist(points[4], points[3]))

\* the variant measures the width again
HeightPixels_AsWidth(points) == WidthPixels(points)

HeightPixels(points) ==
    MeanNorm(SqDist(points[1], points[4]), SqDist(points[2], points[3]))

TooClose(points) ==
    \/ MeanLT(WidthPixels(points), MIN_CALIBRATION_PIXELS)
    \/ MeanLT(HeightPixels(points), MIN_CALIBRATION_PIXELS)

Unrealistic(points) ==
    \/ MeanGT(WidthPixels(points), MAX_CALIBRATION_PIXELS)
    \/ MeanGT(HeightPixels(points), MAX_CALIBRATION_PIXELS)

\* (width_pixels / card_width_cm + height_pixels / card_height_cm) / 2, kept as
\* the two pixel dimensions it is computed from.
ScaleOf(points) ==
    [width_pixels |-> WidthPixels(points), height_pixels |-> HeightPixels(points)]

\* calculate_scale_factor without the minimum-size check being strict: a size
\* equal to the minimum is refused
calculate_scale_factor_MinInclusive(points, scale) ==
    IF ~is_calibration_complete(points)
    THEN [scale_factor |-> scale, out |-> Return(None)]
    ELSE IF \/ ~MeanGT(WidthPixels(points), MIN_CALIBRATION_PIXELS)
            \/ ~MeanGT(HeightPixels(points), MIN_CALIBRATION_PIXELS)
    THEN [scale_factor |-> None, out |-> Raise("too close")]
    ELSE IF Unrealistic(points)
    THEN [scale_factor |-> None, out |-> Raise("unrealistic")]
    ELSE [scale_factor |-> Some(ScaleOf(points)),
          out |-> Return(Some(ScaleOf(points)))]

\* calculate_scale_factor without the maximum-size check
calculate_scale_factor_NoMaxCheck(points, scale) ==
    IF ~is_calibration_complete(points)
    THEN [scale_factor |-> scale, out |-> Return(None)]
    ELSE IF TooClose(points)
    THEN [scale_factor |-> None, out |-> Raise("too close")]
    ELSE [scale_factor |-> Some(ScaleOf(points)),
          out |-> Return(Some(ScaleOf(points)))]

\* calculate_scale_factor taking "at least 4 points" for complete
calculate_scale_factor_AtLeast4(points, scale) ==
    IF Len(points) < 4
    THEN [scale_factor |-> scale, out |-> Return(None)]
    ELSE IF TooClose(points)
    THEN [scale_factor |-> None, out |-> Raise("too close")]
    ELSE IF Unrealistic(points)
    THEN [scale_factor |-> None, out |-> Raise("unrealistic")]
    ELSE [scale_factor |-> Some(ScaleOf(points)),
          out |-> Return(Some(ScaleOf(points)))]

\* calculate_scale_factor: the new scale_factor and what the call gives back
calculate_scale_factor(points, scale) ==
    IF ~is_calibration_complete(points)
    THEN [scale_factor |-> scale, out |-> Return(None)]
    ELSE IF TooClose(points)
    THEN [scale_factor |-> None, out |-> Raise("too close")]
    ELSE IF Unrealistic(points)
    THEN [scale_factor |-> None, out |-> Raise("unrealistic")]
    ELSE [scale_factor |-> Some(ScaleOf(points)),
          out |-> Return(Some(ScaleOf(points)))]

\* pixels / scale_factor
pixels_to_cm(scale, pixels) ==
    IF IsNone(scale) THEN None
    ELSE Some([pixels |-> pixels, over |-> Val(scale)])

\* cm * scale_factor
cm_to_pixels(scale, cm) ==
    IF IsNone(scale) THEN None
    ELSE Some([cm |-> cm, times |-> Val(scale)])

RECURSIVE SumCoord(_, _)
SumCoord(corners, k) ==
    IF corners = <<>> THEN 0 ELSE Head(corners)[k] + SumCoord(Tail(corners), k)

\* x - desk_center_x, where desk_center_x = sum(corner[k]) / 4.  The variant
\* measures from the first corner.
FromCenter_FirstCorner(corners, k, v) == PxOver(v - corners[1][k], 1)

FromCenter(corners, k, v) == PxOver(4 * v - SumCoord(corners, k), 4)

transform_to_desk_coordinates(corners, scale, x, y) ==
    IF ~is_desk_complete(corners) \/ IsNone(scale)
    THEN <<None, None>>
    ELSE << pixels_to_cm(scale, FromCenter(corners, 1, x)),
            pixels_to_cm(scale, FromCenter(corners, 2, y)) >>

get_desk_dimensions_cm(corners, scale) ==
    IF ~is_desk_complete(corners) \/ IsNone(scale)
    THEN <<None, None>>
    ELSE << pixels_to_cm(scale, PxNorm(SqDist(corners[1], corners[2]))),
            pixels_to_cm(scale, PxNorm(SqDist(corners[1], corners[4]))) >>

\* json.dumps(self.desk_corners): the list itself
get_desk_bounds_json(corners) == corners

-----------------------------------------------------------------------------
(* The state after construction *)

\* CalibrationManager.__init__
CalibrationInit ==
    /\ calibration_points = <<>>
    /\ desk_corners = <<>>
    /\ scale_factor = None

\* DeskOptMainWindow.__init__ and ImageWidget.__init__; no worker exists yet
WindowInit ==
    /\ app = "running"
    /\ current_image_path = None
    /\ mode = "view"
    /\ w_calibration_points = <<>>
    /\ w_desk_corners = <<>>
    /\ is_analyzing = FALSE
    /\ analysis_worker = None
    /\ current_scan_id = None

NoWorker ==
    /\ pc = "idle"
    /\ is_cancelled = FALSE
    /\ params = None
    /\ detected_items = <<>>
    /\ processed_items = <<>>
    /\ idx = 0
    /\ cur = None
    /\ scan_id = None
    /\ analysis = None
    /\ sigq = <<>>

Init ==
    /\ CalibrationInit
    /\ lastOp = "__init__"
    /\ ret = Return(None)
    /\ WindowInit
    /\ NoWorker
    /\ scans = <<>>
    /\ db_items = <<>>
    /\ emitted = <<>>
    /\ run_saves = 0
    /\ ended = ""
    /\ raised_stage = ""
    /\ interleaved = 0

-----------------------------------------------------------------------------
(* The CalibrationManager driven through its methods, in any order *)

ApiUnchanged == UNCHANGED <<guivars, wrkvars, sigq, dbvars, obsvars, interleaved>>

ApiAddCalibrationPoint ==
    \E p \in CalPoints :
        /\ Len(calibration_points) < MaxPoints
        /\ calibration_points' = Append(calibration_points, p)
        /\ lastOp' = "add_calibration_point"
        /\ ret' = Return(<<Len(calibration_points) + 1>>)
        /\ UNCHANGED <<desk_corners, scale_factor>>
        /\ ApiUnchanged

ApiAddDeskCorner ==
    \E p \in DeskPoints :
        /\ Len(desk_corners) < MaxPoints
        /\ desk_corners' = Append(desk_corners, p)
        /\ lastOp' = "add_desk_corner"
        /\ ret' = Return(<<Len(desk_corners) + 1>>)
        /\ UNCHANGED <<calibration_points, scale_factor>>
        /\ ApiUnchanged

ApiCalculateScaleFactor ==
    LET r == calculate_scale_factor(calibration_points, scale_factor)
    IN  /\ scale_factor' = r.scale_factor
        /\ lastOp' = "calculate_scale_factor"
        /\ ret' = r.out
        /\ UNCHANGED <<calibration_points, desk_corners>>
        /\ ApiUnchanged

ApiResetCalibration ==
    /\ calibration_points' = <<>>
    /\ desk_corners' = <<>>
    /\ scale_factor' = None
    /\ lastOp' = "reset_calibration"
    /\ ret' = Return(None)
    /\ ApiUnchanged

ApiPixelsToCm ==
    \E v \in Lengths :
        /\ lastOp' = "pixels_to_cm"
        /\ ret' = Return(pixels_to_cm(scale_factor, Px(v)))
        /\ UNCHANGED calvars
        /\ ApiUnchanged

ApiCmToPixels ==
    \E v \in Lengths :
        /\ lastOp' = "cm_to_pixels"
        /\ ret' = Return(cm_to_pixels(scale_factor, v))
        /\ UNCHANGED calvars
        /\ ApiUnchanged

ApiTransformToDeskCoordinates ==
    \E x \in Lengths, y \in Lengths :
        /\ lastOp' = "transform_to_desk_coordinates"
        /\ ret' = Return(transform_to_desk_coordinates(desk_corners, scale_factor, x, y))
        /\ UNCHANGED calvars
        /\ ApiUnchanged

ApiGetDeskDimensionsCm ==
    /\ lastOp' = "get_desk_dimensions_cm"
    /\ ret' = Return(get_desk_dimensions_cm(desk_corners, scale_factor))
    /\ UNCHANGED calvars
    /\ ApiUnchanged

NextCal ==
    \/ ApiAddCalibrationPoint
    \/ ApiAddDeskCorner
    \/ ApiCalculateScaleFactor
    \/ ApiResetCalibration
    \/ ApiPixelsToCm
    \/ ApiCmToPixels
    \/ ApiTransformToDeskCoordinates
    \/ ApiGetDeskDimensionsCm

SpecCal == Init /\ [][NextCal]_vars

-----------------------------------------------------------------------------
(* Inputs of the analysis session *)

\* The image positions the user clicks on the reference card and on the desk.
\* The user clicks the card's corners in the order the dialog asks for;
\* a last click at <<20200, 60>> makes the card 10100 px wide, which is
\* above the maximum.
CalClicks(k) ==
    IF k = 1 THEN { <<0, 0>> }
    ELSE IF k = 2 THEN { <<100, 0>> }
    ELSE IF k = 3 THEN { <<100, 60>> }
    ELSE { <<0, 60>>, <<20200, 60>> }
DeskClicks == { <<50, 0>> }
\* The image file the user imports.
ImagePath == "desk.jpg"
\* profile_combo.currentData(): no profile, or the id of the selected one
ProfileIds == { None, <<1>> }
\* What detect_objects returns.
Keyboard ==
    [slug |-> "keyboard", x |-> 50, y |-> 0, width |-> 30, height |-> 10,
     confidence |-> 85]
Mouse ==
    [slug |-> "mouse", x |-> 80, y |-> 10, width |-> 6, height |-> 9,
     confidence |-> 78]
DetectorOutputs == { <<>>, <<Keyboard>>, <<Keyboard, Mouse>> }
\* The texts of the exceptions the collaborators raise.
Causes == { "database is locked" }
\* What analyze_ergonomics returns: its score is all run() reads.
AnalysisResults == { [score |-> 100], [score |-> 0] }

-----------------------------------------------------------------------------
(* Notifications: the worker's signals progress(str, int), finished(dict),   *)
(* error(str).  A message is the sequence of its parts.                      *)

Progress(m, p) == [kind |-> "progress", pct |-> p, msg |-> <<m>>, results |-> None]
Finished(r) == [kind |-> "finished", pct |-> 0, msg |-> <<>>, results |-> Some(r)]
Error(m) == [kind |-> "error", pct |-> 0, msg |-> m, results |-> None]

IsTerminal(n) == n.kind \in {"finished", "error"}

\* signal.emit(...): posted to the main thread's event queue (the receiver
\* lives in another thread, so the connection is queued).  The slot of a
\* progress signal, on_analysis_progress, only writes the status bar and the
\* progress bar; neither is part of the model, so only the terminal signals
\* are kept in the queue.  The variant emits in the opposite order.
Emit_Reversed(ns) ==
    /\ sigq' = sigq \o SelectSeq(ns, IsTerminal)
    /\ emitted' = emitted \o [i \in 1..Len(ns) |-> ns[Len(ns) + 1 - i]]

Emit(ns) ==
    /\ sigq' = sigq \o SelectSeq(ns, IsTerminal)
    /\ emitted' = emitted \o ns

-----------------------------------------------------------------------------
(* DeskOptMainWindow: the handlers of the main (GUI) thread.  A handler runs *)
(* to its end before the next event is taken.  An exception that leaves a    *)
(* slot unhandled ends the application (PyQt calls qFatal()).                *)

Running == app = "running"

WindowUnchanged == UNCHANGED <<apivars, wrkvars, sigq, dbvars, obsvars>>

\* a run is in flight: started, its terminal notification not yet handled
InFlight == pc \notin {"idle", "cancelled"}

\* The main thread handles a user action (menu, button, mouse click).
UserAction ==
    /\ Running
    /\ IF InFlight
       THEN interleaved < MaxInterleaved /\ interleaved' = interleaved + 1
       ELSE UNCHANGED interleaved

\* import_image: the file chooser is dismissed, the image loads, or loading fails
ImportImage ==
    /\ UserAction
    /\ \/ UNCHANGED <<current_image_path, mode>>
       \/ /\ current_image_path' = Some(ImagePath)
          /\ mode' = "view"
       \/ /\ current_image_path' = None
          /\ UNCHANGED mode
    /\ UNCHANGED <<app, w_calibration_points, w_desk_corners, is_analyzing,
                   analysis_worker, current_scan_id, calvars>>
    /\ WindowUnchanged

\* start_calibration
StartCalibration ==
    /\ UserAction
    /\ IF IsNone(current_image_path)
       THEN UNCHANGED <<mode, w_calibration_points, calvars>>
       ELSE /\ mode' = "calibration"
            /\ w_calibration_points' = <<>>
            /\ calibration_points' = <<>>
            /\ desk_corners' = <<>>
            /\ scale_factor' = None
    /\ UNCHANGED <<app, current_image_path, w_desk_corners, is_analyzing,
                   analysis_worker, current_scan_id>>
    /\ WindowUnchanged

\* start_desk_marking
StartDeskMarking ==
    /\ UserAction
    /\ IF IsNone(current_image_path)
       THEN UNCHANGED <<mode, w_desk_corners>>
       ELSE /\ mode' = "desk"
            /\ w_desk_corners' = <<>>
    /\ UNCHANGED <<app, current_image_path, w_calibration_points, is_analyzing,
                   analysis_worker, current_scan_id, calvars>>
    /\ WindowUnchanged

\* handle_image_click in calibration mode
ClickCalibration(p) ==
    LET points == Append(calibration_points, p)
        r == calculate_scale_factor(points, scale_factor)
    IN  /\ calibration_points' = points
        /\ w_calibration_points' = Append(w_calibration_points, p)
        /\ IF Len(points) = 4
           THEN /\ scale_factor' = r.scale_factor
                /\ IF r.out.kind = "raise"
                   THEN app' = "aborted" /\ UNCHANGED mode
                   ELSE mode' = "view" /\ UNCHANGED app
           ELSE UNCHANGED <<scale_factor, app, mode>>
        /\ UNCHANGED <<desk_corners, w_desk_corners>>

\* handle_image_click in desk mode: with 4 corners and no scale the message
\* cannot be formatted (width_cm is None) and the slot raises
ClickDesk(p) ==
    LET corners == Append(desk_corners, p)
        dims == get_desk_dimensions_cm(corners, scale_factor)
    IN  /\ desk_corners' = corners
        /\ w_desk_corners' = Append(w_desk_corners, p)
        /\ IF Len(corners) = 4
           THEN IF IsNone(dims[1])
                THEN app' = "aborted" /\ UNCHANGED mode
                ELSE mode' = "view" /\ UNCHANGED app
           ELSE UNCHANGED <<app, mode>>
        /\ UNCHANGED <<calibration_points, scale_factor, w_calibration_points>>

\* ImageWidget.mousePressEvent and handle_image_click
HandleImageClick ==
    /\ UserAction
    /\ \/ /\ mode = "calibration"
          /\ Len(calibration_points) < MaxPoints
          /\ \E p \in CalClicks(Len(calibration_points) + 1) : ClickCalibration(p)
       \/ /\ mode = "desk"
          /\ Len(desk_corners) < MaxPoints
          /\ \E p \in DeskClicks : ClickDesk(p)
    /\ UNCHANGED <<current_image_path, is_analyzing, analysis_worker, current_scan_id>>
    /\ WindowUnchanged

\* the parameters the window reads from its role and handedness combo boxes
Role == "coder"
Handedness == "right"

\* analyze_setup, line 807: "if self.is_analyzing"; the variant never refuses
AlreadyAnalyzing_Never == FALSE

AlreadyAnalyzing == is_analyzing

\* AnalysisWorker.__init__ for the worker analyze_setup constructs
NewWorker(profile_id) ==
    /\ analysis_worker' = Some("worker")
    /\ params' = Some([image_path |-> Val(current_image_path),
                       profile_id |-> Val(profile_id),
                       role |-> Role, handedness |-> Handedness])
    /\ is_cancelled' = FALSE
    /\ detected_items' = <<>>
    /\ processed_items' = <<>>
    /\ idx' = 0
    /\ cur' = None
    /\ scan_id' = None
    /\ analysis' = None
    /\ emitted' = <<>>
    /\ run_saves' = 0
    /\ ended' = ""
    /\ raised_stage' = ""
    /\ interleaved' = 0
    /\ scans' = <<>>
    /\ db_items' = <<>>

\* a warning box is shown and analyze_setup returns
AnalyzeRefused ==
    UNCHANGED <<is_analyzing, analysis_worker, wrkvars, dbvars, obsvars, interleaved>>

\* analyze_setup
AnalyzeSetup ==
    /\ Running
    /\ IF AlreadyAnalyzing THEN AnalyzeRefused
       ELSE IF IsNone(current_image_path) THEN AnalyzeRefused
       ELSE IF IsNone(scale_factor) THEN AnalyzeRefused
       ELSE IF ~is_desk_complete(desk_corners) THEN AnalyzeRefused
       ELSE \E profile_id \in ProfileIds :
               IF IsNone(profile_id) THEN AnalyzeRefused
               ELSE /\ NewWorker(profile_id)
                    /\ \/ /\ is_analyzing' = TRUE      \* the thread is started
                          /\ pc' = "start"
                       \/ /\ is_analyzing' = FALSE     \* starting it raised
                          /\ pc' = "idle"
    /\ UNCHANGED <<app, current_image_path, mode, w_calibration_points,
                   w_desk_corners, current_scan_id, calvars, apivars, sigq>>

\* "self.analysis_worker.deleteLater(); self.analysis_worker = None": the
\* worker object is gone, and with it its fields and what is recorded of it
DeleteWorker ==
    /\ analysis_worker' = None
    /\ pc' = "idle"
    /\ is_cancelled' = FALSE
    /\ params' = None
    /\ detected_items' = <<>>
    /\ processed_items' = <<>>
    /\ idx' = 0
    /\ cur' = None
    /\ scan_id' = None
    /\ analysis' = None
    /\ scans' = <<>>
    /\ db_items' = <<>>
    /\ emitted' = <<>>
    /\ run_saves' = 0
    /\ ended' = ""
    /\ raised_stage' = ""
    /\ interleaved' = 0

\* on_analysis_error
OnAnalysisError ==
    /\ is_analyzing' = FALSE
    /\ DeleteWorker

\* display_results formats every item's position with "{:.1f}": it raises on
\* an item whose x_pos or y_pos is None
DisplayRaises(results) ==
    \E i \in DOMAIN results.processed_items :
        \/ IsNone(results.processed_items[i].x_pos)
        \/ IsNone(results.processed_items[i].y_pos)

\* on_analysis_finished
OnAnalysisFinished(results) ==
    /\ current_scan_id' = results.scan_id
    /\ IF DisplayRaises(results)
       THEN OnAnalysisError /\ UNCHANGED mode
       ELSE /\ is_analyzing' = FALSE
            /\ mode' = "view"
            /\ DeleteWorker

\* The main thread takes the next queued signal and runs the slot connected
\* to it: on_analysis_finished or on_analysis_error.
DeliverSignal ==
    /\ Running
    /\ sigq # <<>>
    /\ sigq' = Tail(sigq)
    /\ LET n == Head(sigq)
       IN  \/ /\ n.kind = "finished"
              /\ OnAnalysisFinished(Val(n.results))
           \/ /\ n.kind = "error"
              /\ OnAnalysisError
              /\ UNCHANGED <<current_scan_id, mode>>
    /\ UNCHANGED <<app, current_image_path, w_calibration_points, w_desk_corners,
                   calvars, apivars>>

\* AnalysisWorker.cancel, callable by whoever holds the worker
Cancel ==
    /\ Running
    /\ ~IsNone(analysis_worker)
    /\ ~is_cancelled
    /\ is_cancelled' = TRUE
    /\ UNCHANGED <<pc, params, detected_items, processed_items, idx, cur, scan_id,
                   analysis, calvars, apivars, guivars, sigq, dbvars, obsvars,
                   interleaved>>

-----------------------------------------------------------------------------
(* AnalysisWorker.run, in the worker thread.  One action per stretch of run() *)
(* between two reads of state the main thread can change (_is_cancelled, the  *)
(* CalibrationManager) or two calls of a collaborator.  A call of a           *)
(* CalibrationManager method is one step: the main thread's handlers          *)
(* interleave between the worker's calls, not inside one.                     *)

WorkerUnchanged ==
    UNCHANGED <<calvars, apivars, guivars, is_cancelled, params, interleaved>>

\* the positions of run() at which _is_cancelled is read
CheckPcs == {"start", "chk_transform", "loop", "chk_persist", "chk_rules", "chk_final"}
\* the positions of a run that is still executing
RunningPcs == CheckPcs \cup {"detect", "xf_w", "xf_h", "save_scan", "save_items",
                             "rules"}

\* "if self._is_cancelled"; the variant never sees the flag
Cancelled_Never == FALSE

Cancelled == is_cancelled

\* "if self._is_cancelled: return"
Abandon ==
    /\ pc' = "cancelled"
    /\ ended' = "cancelled"
    /\ UNCHANGED <<sigq, emitted>>

\* the handler that swallows the exception: nothing is emitted
HandleException_Silent(stage, text) ==
    /\ UNCHANGED <<sigq, emitted>>
    /\ pc' = "done"
    /\ ended' = "raised"
    /\ raised_stage' = stage

\* except Exception as e: self.error.emit(f"Analysis failed: {str(e)}")
ExceptionMessage(text) == <<"Analysis failed: ">> \o text

HandleException(stage, text) ==
    /\ Emit(<<Error(ExceptionMessage(text))>>)
    /\ pc' = "done"
    /\ ended' = "raised"
    /\ raised_stage' = stage

\* str(e) of the exception a stage lets escape, for the collaborator's error
\* text c: detect_objects wraps it (detector.py:111-113), the others do not
ExceptionText(stage, c) ==
    IF stage = "detect" THEN <<"Detection error: ", c>> ELSE <<c>>

\* "if not detected_items"
NoItems(items) == items = <<>>

\* "if not processed_items"; the variant goes on with an empty list
NoValid_Never(items) == FALSE

NoValid(items) == items = <<>>

\* lines 53-56
WorkerStart ==
    /\ Running
    /\ pc = "start"
    /\ IF Cancelled THEN Abandon
       ELSE /\ Emit(<<Progress("Detecting objects in image...", 10)>>)
            /\ pc' = "detect"
            /\ UNCHANGED ended
    /\ UNCHANGED <<detected_items, processed_items, idx, cur, scan_id, analysis,
                   dbvars, run_saves, raised_stage>>
    /\ WorkerUnchanged

\* lines 57-69
WorkerDetect ==
    /\ Running
    /\ pc = "detect"
    /\ \/ \E c \in Causes :
             /\ HandleException("detect", ExceptionText("detect", c))
             /\ UNCHANGED detected_items
       \/ \E items \in DetectorOutputs :
             /\ detected_items' = items
             /\ UNCHANGED raised_stage
             /\ IF NoItems(items)
                THEN /\ Emit(<<Error(<<"No desk items were detected in the image.">>)>>)
                     /\ pc' = "done"
                     /\ ended' = "no_items"
                ELSE /\ Emit(<<Progress("Detected items", 40)>>)
                     /\ pc' = "chk_transform"
                     /\ UNCHANGED ended
    /\ UNCHANGED <<processed_items, idx, cur, scan_id, analysis, dbvars, run_saves>>
    /\ WorkerUnchanged

\* lines 72-76
WorkerCheckTransform ==
    /\ Running
    /\ pc = "chk_transform"
    /\ IF Cancelled THEN Abandon /\ UNCHANGED <<processed_items, idx>>
       ELSE /\ Emit(<<Progress("Processing item positions...", 50)>>)
            /\ processed_items' = <<>>
            /\ idx' = 1
            /\ pc' = "loop"
            /\ UNCHANGED ended
    /\ UNCHANGED <<detected_items, cur, scan_id, analysis, dbvars, run_saves,
                   raised_stage>>
    /\ WorkerUnchanged

\* the dict of lines 83-90 before its fields are filled in
EmptyItem(item) ==
    [item_slug |-> item.slug, x_pos |-> None, y_pos |-> None, width |-> None,
     height |-> None, confidence |-> item.confidence]

\* lines 77-82 and 92-96: the loop head with the call (line 81) of
\* transform_to_desk_coordinates for the next item, and the test after the loop
WorkerLoop ==
    /\ Running
    /\ pc = "loop"
    /\ IF idx > Len(detected_items)
       THEN /\ IF NoValid(processed_items)
               THEN /\ Emit(<<Error(<<"Failed to process detected items. Check calibration.">>)>>)
                    /\ pc' = "done"
                    /\ ended' = "no_valid"
               ELSE /\ Emit(<<Progress("Processed items", 60)>>)
                    /\ pc' = "chk_persist"
                    /\ UNCHANGED ended
            /\ UNCHANGED <<idx, cur>>
       ELSE IF Cancelled THEN Abandon /\ UNCHANGED <<idx, cur>>
       ELSE /\ LET item == detected_items[idx]
                    cm == transform_to_desk_coordinates(desk_corners, scale_factor,
                                                        item.x, item.y)
                IN  IF IsNone(cm[1])                   \* x_cm is None: item skipped
                    THEN idx' = idx + 1 /\ pc' = "loop" /\ UNCHANGED cur
                    ELSE /\ idx' = idx
                         /\ pc' = "xf_w"
                         /\ cur' = Some([EmptyItem(item) EXCEPT !.x_pos = cm[1],
                                                                !.y_pos = cm[2]])
            /\ UNCHANGED <<sigq, emitted, ended>>
    /\ UNCHANGED <<detected_items, processed_items, scan_id, analysis, dbvars,
                   run_saves, raised_stage>>
    /\ WorkerUnchanged

\* line 87: width
WorkerTransformWidth ==
    /\ Running
    /\ pc = "xf_w"
    /\ cur' = Some([Val(cur) EXCEPT !.width =
                        pixels_to_cm(scale_factor, Px(detected_items[idx].width))])
    /\ pc' = "xf_h"
    /\ UNCHANGED <<detected_items, processed_items, idx, scan_id, analysis, sigq,
                   dbvars, obsvars>>
    /\ WorkerUnchanged

\* lines 83-90: height (line 88), and the item is appended
WorkerTransformHeight ==
    /\ Running
    /\ pc = "xf_h"
    /\ processed_items' = Append(processed_items,
            [Val(cur) EXCEPT !.height =
                pixels_to_cm(scale_factor, Px(detected_items[idx].height))])
    /\ cur' = None
    /\ idx' = idx + 1
    /\ pc' = "loop"
    /\ UNCHANGED <<detected_items, scan_id, analysis, sigq, dbvars, obsvars>>
    /\ WorkerUnchanged

\* lines 99-102
WorkerCheckPersist ==
    /\ Running
    /\ pc = "chk_persist"
    /\ IF Cancelled THEN Abandon
       ELSE /\ Emit(<<Progress("Saving scan data...", 70)>>)
            /\ pc' = "save_scan"
            /\ UNCHANGED ended
    /\ UNCHANGED <<detected_items, processed_items, idx, cur, scan_id, analysis,
                   dbvars, run_saves, raised_stage>>
    /\ WorkerUnchanged

\* DatabaseManager.save_scan: the row inserted; its id is cursor.lastrowid
ScanRow(profile_id, image_path, scale, desk_bounds) ==
    [id |-> Len(scans) + 1, profile_id |-> profile_id, image_path |-> image_path,
     scale_factor |-> scale, desk_bounds |-> desk_bounds]

\* lines 103-109
WorkerSaveScan ==
    /\ Running
    /\ pc = "save_scan"
    /\ run_saves' = run_saves + 1
    /\ \/ \E c \in Causes :
             /\ HandleException("persist", ExceptionText("persist", c))
             /\ UNCHANGED <<scans, scan_id>>
       \/ /\ scans' = Append(scans,
                 ScanRow(Val(params).profile_id, Val(params).image_path,
                         scale_factor, get_desk_bounds_json(desk_corners)))
          /\ scan_id' = Some(Len(scans) + 1)
          /\ pc' = "save_items"
          /\ UNCHANGED <<sigq, emitted, ended, raised_stage>>
    /\ UNCHANGED <<detected_items, processed_items, idx, cur, analysis, db_items>>
    /\ WorkerUnchanged

\* DatabaseManager.save_detected_items: the rows inserted, in one transaction
RECURSIVE ItemRows(_, _)
ItemRows(sid, items) ==
    IF items = <<>> THEN <<>>
    ELSE << [scan_id |-> sid, item_slug |-> Head(items).item_slug,
             x_pos |-> Head(items).x_pos, y_pos |-> Head(items).y_pos,
             width |-> Head(items).width, height |-> Head(items).height,
             confidence |-> Head(items).confidence] >>
         \o ItemRows(sid, Tail(items))

\* lines 111-112
WorkerSaveItems ==
    /\ Running
    /\ pc = "save_items"
    /\ run_saves' = run_saves + 1
    /\ \/ \E c \in Causes :
             /\ HandleException("persist", ExceptionText("persist", c))
             /\ UNCHANGED db_items
       \/ /\ db_items' = db_items \o ItemRows(Val(scan_id), processed_items)
          /\ Emit(<<Progress("Scan data saved", 75)>>)
          /\ pc' = "chk_rules"
          /\ UNCHANGED <<ended, raised_stage>>
    /\ UNCHANGED <<detected_items, processed_items, idx, cur, scan_id, analysis,
                   scans>>
    /\ WorkerUnchanged

\* lines 115-118
WorkerCheckRules ==
    /\ Running
    /\ pc = "chk_rules"
    /\ IF Cancelled THEN Abandon
       ELSE /\ Emit(<<Progress("Analyzing ergonomics...", 80)>>)
            /\ pc' = "rules"
            /\ UNCHANGED ended
    /\ UNCHANGED <<detected_items, processed_items, idx, cur, scan_id, analysis,
                   dbvars, run_saves, raised_stage>>
    /\ WorkerUnchanged

\* lines 119-128: analyze_ergonomics returns a result or raises
WorkerRules ==
    /\ Running
    /\ pc = "rules"
    /\ \/ \E c \in Causes :
             /\ HandleException("rule-evaluate", ExceptionText("rule-evaluate", c))
             /\ UNCHANGED analysis
       \/ \E a \in AnalysisResults :
             /\ analysis' = Some(a)
             /\ Emit(<<Progress("Analysis complete!", 95)>>)
             /\ pc' = "chk_final"
             /\ UNCHANGED <<ended, raised_stage>>
    /\ UNCHANGED <<detected_items, processed_items, idx, cur, scan_id, dbvars,
                   run_saves>>
    /\ WorkerUnchanged

\* lines 131-143
WorkerFinalize ==
    /\ Running
    /\ pc = "chk_final"
    /\ IF Cancelled THEN Abandon
       ELSE /\ Emit(<< Progress("Finalizing results...", 100),
                       Finished([scan_id |-> scan_id,
                                 detected_items |-> detected_items,
                                 processed_items |-> processed_items,
                                 analysis |-> Val(analysis)]) >>)
            /\ pc' = "done"
            /\ ended' = "finished"
    /\ UNCHANGED <<detected_items, processed_items, idx, cur, scan_id, analysis,
                   dbvars, run_saves, raised_stage>>
    /\ WorkerUnchanged

Next ==
    \/ ImportImage
    \/ StartCalibration
    \/ StartDeskMarking
    \/ HandleImageClick
    \/ AnalyzeSetup
    \/ DeliverSignal
    \/ Cancel
    \/ WorkerStart
    \/ WorkerDetect
    \/ WorkerCheckTransform
    \/ WorkerLoop
    \/ WorkerTransformWidth
    \/ WorkerTransformHeight
    \/ WorkerCheckPersist
    \/ WorkerSaveScan
    \/ WorkerSaveItems
    \/ WorkerCheckRules
    \/ WorkerRules
    \/ WorkerFinalize

Spec == Init /\ [][Next]_vars

-----------------------------------------------------------------------------
(* Claims about the CalibrationManager, checked under SpecCal *)

\* The sizes the claims speak of, stated on the 4 points directly.
C_WidthSq(points) == <<SqDist(points[1], points[2]), SqDist(points[4], points[3])>>
C_HeightSq(points) == <<SqDist(points[1], points[4]), SqDist(points[2], points[3])>>
C_BelowMin(points) ==
    \/ SumSqrtLT(C_WidthSq(points)[1], C_WidthSq(points)[2], 20)
    \/ SumSqrtLT(C_HeightSq(points)[1], C_HeightSq(points)[2], 20)
C_AboveMax(points) ==
    \/ SumSqrtGT(C_WidthSq(points)[1], C_WidthSq(points)[2], 20000)
    \/ SumSqrtGT(C_HeightSq(points)[1], C_HeightSq(points)[2], 20000)
C_First4(points) == SubSeq(points, 1, 4)

\* C5 as stated: scale_factor is set only if the session holds exactly 4
\* calibration points and those 4 points pass the minimum and maximum checks.
C5_Original ==
    ~IsNone(scale_factor) =>
        /\ Len(calibration_points) = 4
        /\ ~C_BelowMin(calibration_points)
        /\ ~C_AboveMax(calibration_points)

\* C5 amended: scale_factor is set only if the session holds at least 4
\* calibration points and the first 4 of them pass the minimum and maximum
\* checks (points added after a successful calibration are accumulated and
\* leave the scale set).
C5_ScaleSetOnlyIfFirstFourValid ==
    ~IsNone(scale_factor) =>
        /\ Len(calibration_points) >= 4
        /\ ~C_BelowMin(C_First4(calibration_points))
        /\ ~C_AboveMax(C_First4(calibration_points))

C5_Witness ==
    /\ ~IsNone(scale_factor)
    /\ Len(calibration_points) = 5
    /\ lastOp = "add_calibration_point"

\* C6 as stated: with 4 points, a width or height below the minimum gives the
\* "too close" error and a width or height above the maximum gives the
\* "unrealistic" error; sizes equal to a threshold are accepted; after either
\* failure scale_factor is unset.
C6_Original ==
    (lastOp = "calculate_scale_factor" /\ Len(calibration_points) = 4) =>
        /\ C_BelowMin(calibration_points) => ret = Raise("too close")
        /\ C_AboveMax(calibration_points) => ret = Raise("unrealistic")
        /\ (~C_BelowMin(calibration_points) /\ ~C_AboveMax(calibration_points))
               => (ret.kind = "return" /\ ~IsNone(ret.val))
        /\ ret.kind = "raise" => IsNone(scale_factor)

\* C6 amended: with 4 points, a width or height below the minimum gives the
\* "too close" error; otherwise a width or height above the maximum gives the
\* "unrealistic" error (the minimum check comes first, so a session with one
\* size below the minimum and the other above the maximum fails with "too
\* close"); sizes equal to a threshold are accepted; the error is raised to the
\* caller and after either failure scale_factor is unset.
C6_ThresholdErrors ==
    (lastOp = "calculate_scale_factor" /\ Len(calibration_points) = 4) =>
        /\ C_BelowMin(calibration_points) => ret = Raise("too close")
        /\ (~C_BelowMin(calibration_points) /\ C_AboveMax(calibration_points))
               => ret = Raise("unrealistic")
        /\ (~C_BelowMin(calibration_points) /\ ~C_AboveMax(calibration_points))
               => (ret.kind = "return" /\ ~IsNone(ret.val) /\ ret.val = scale_factor)
        /\ ret.kind = "raise" => IsNone(scale_factor)

\* a calibration whose width and height equal the minimum has been accepted
C6_Witness ==
    /\ lastOp = "calculate_scale_factor"
    /\ calibration_points = << <<0, 0>>, <<6, 8>>, <<0, 0>>, <<6, 8>> >>
    /\ ret.kind = "return"
    /\ ~IsNone(scale_factor)

\* C7 as stated: calculate_scale_factor with a number of points other than 4
\* raises an error to its caller.
C7_Original ==
    (lastOp = "calculate_scale_factor" /\ Len(calibration_points) # 4) =>
        ret.kind = "raise"

\* C7 amended: calculate_scale_factor with a number of points other than 4
\* (fewer, or more) raises nothing: it returns None to its caller, never a
\* scale, and leaves calibration_points, desk_corners and scale_factor as they
\* were.
C7_IncompleteReturnsNone ==
    [][ (lastOp' = "calculate_scale_factor" /\ Len(calibration_points) # 4) =>
            (ret' = Return(None) /\ UNCHANGED calvars) ]_vars

\* called with 5 points and a scale already set
C7_Witness ==
    /\ lastOp = "calculate_scale_factor"
    /\ Len(calibration_points) = 5
    /\ ~IsNone(scale_factor)
    /\ ret = Return(None)

\* C8: with scale_factor unset, pixels_to_cm and cm_to_pixels return None and
\* transform_to_desk_coordinates and get_desk_dimensions_cm return (None, None);
\* the latter two also do so whenever the number of desk corners is not 4; none
\* of the four changes the session.
C8_UnavailableWithoutScaleOrDesk ==
    [][ /\ (lastOp' \in {"pixels_to_cm", "cm_to_pixels"} /\ IsNone(scale_factor))
            => ret' = Return(None)
        /\ (/\ lastOp' \in {"transform_to_desk_coordinates", "get_desk_dimensions_cm"}
            /\ (IsNone(scale_factor) \/ Len(desk_corners) # 4))
            => ret' = Return(<<None, None>>)
        /\ lastOp' \in {"pixels_to_cm", "cm_to_pixels",
                        "transform_to_desk_coordinates", "get_desk_dimensions_cm"}
            => UNCHANGED calvars ]_vars

\* a transform asked with the scale set and 5 desk corners
C8_Witness ==
    /\ lastOp = "transform_to_desk_coordinates"
    /\ ~IsNone(scale_factor)
    /\ Len(desk_corners) = 5
    /\ ret = Return(<<None, None>>)

-----------------------------------------------------------------------------
(* Properties of the analysis session (specification Spec) *)

\* the number of terminal notifications in a sequence of notifications
NumTerminal(ns) == Cardinality({ i \in DOMAIN ns : IsTerminal(ns[i]) })

\* the run of the current worker ended without observing cancellation
EndedUncancelled == ended \notin {"", "cancelled"}

\* C1: a run emits at most one terminal notification, none while it is still
\* executing, and a run that ended without observing cancellation has emitted
\* exactly one, finished or error, as its last notification.
C1_ExactlyOneTerminal ==
    /\ NumTerminal(emitted) <= 1
    /\ pc \in RunningPcs => NumTerminal(emitted) = 0
    /\ EndedUncancelled =>
          /\ pc = "done"
          /\ NumTerminal(emitted) = 1
          /\ IsTerminal(emitted[Len(emitted)])
          /\ (ended = "finished") = (emitted[Len(emitted)].kind = "finished")

C1_Witness ==
    /\ ended = "raised"
    /\ raised_stage = "persist"
    /\ emitted[Len(emitted)].kind = "error"

\* run() is about to read _is_cancelled
AtCheck == pc \in CheckPcs /\ (pc = "loop" => idx <= Len(detected_items))

\* what a run that has exited leaves alone: notifications and the database
Silent == UNCHANGED <<emitted, sigq, scans, db_items, run_saves>>

\* C2: a run that reaches one of its cancellation checks with the flag set
\* exits there, and a run that has exited on cancellation emits nothing and
\* saves nothing afterwards.
C2_CancelObservedAtCheck ==
    [][ /\ (AtCheck /\ is_cancelled /\ <<pc, idx>>' # <<pc, idx>>)
            => (pc' = "cancelled" /\ Silent)
        /\ (pc = "cancelled") => (pc' = "cancelled" /\ Silent) ]_vars

C2_Witness ==
    /\ pc = "cancelled"
    /\ run_saves = 2
    /\ NumTerminal(emitted) = 0

\* a worker was started and its terminal notification has not been handled
Started == pc # "idle"

\* C3: while a run is in flight the session is marked as analyzing, an
\* analyze_setup request leaves the worker, its run, the queue and the flag
\* as they are, and no run starts except from the state without a run.
C3_OneWorkerAtATime ==
    /\ [](Started => (is_analyzing /\ ~IsNone(analysis_worker)))
    /\ [][ /\ (Started /\ AnalyzeSetup) =>
                UNCHANGED <<analysis_worker, is_analyzing, wrkvars, sigq, dbvars,
                            obsvars>>
           /\ (Started /\ pc' = "start") =>
                /\ UNCHANGED <<pc, params, obsvars>>
                /\ is_cancelled => is_cancelled' ]_vars

\* a run is executing and a request made now passes every other validation
C3_Witness ==
    /\ pc \in RunningPcs
    /\ emitted # <<>>
    /\ is_analyzing
    /\ ~IsNone(current_image_path)
    /\ ~IsNone(scale_factor)
    /\ is_desk_complete(desk_corners)

\* C4 (as stated): the session a run reads is not mutated during the run, so
\* every row the run saved in detected_items has a position and a size, and
\* was transformed with the scale saved in the run's row of scans.
C4_PersistedRowsConsistent ==
    /\ \A i \in DOMAIN db_items :
          /\ ~IsNone(db_items[i].x_pos)
          /\ ~IsNone(db_items[i].y_pos)
          /\ ~IsNone(db_items[i].width)
          /\ ~IsNone(db_items[i].height)
          /\ \A j \in DOMAIN scans :
                /\ ~IsNone(scans[j].scale_factor)
                /\ Val(db_items[i].x_pos).over = Val(scans[j].scale_factor)
                /\ Val(db_items[i].width).over = Val(scans[j].scale_factor)

\* the positions of run() in the stages after the transform
LaterPcs == {"chk_persist", "save_scan", "save_items", "chk_rules", "rules",
             "chk_final"}

\* C9: a run in which detection returned nothing or raised, or in which no
\* item survived the transform, has ended with an error as its only terminal
\* notification and has saved nothing; the later stages are entered only with
\* detected and transformed items.
C9_EarlyEndPersistsNothing ==
    /\ (ended \in {"no_items", "no_valid"} \/ raised_stage = "detect") =>
          /\ pc = "done"
          /\ emitted[Len(emitted)].kind = "error"
          /\ NumTerminal(emitted) = 1
          /\ run_saves = 0 /\ scans = <<>> /\ db_items = <<>>
          /\ IsNone(scan_id) /\ IsNone(analysis)
    /\ (pc \in LaterPcs \/ run_saves > 0 \/ ended = "finished") =>
          /\ detected_items # <<>>
          /\ processed_items # <<>>
          /\ raised_stage # "detect"

C9_Witness ==
    /\ ended = "no_valid"
    /\ detected_items # <<>>
    /\ run_saves = 0

\* the stages of a run
Stages == {"detect", "transform", "persist", "rule-evaluate", "finalize"}

\* C10 (as stated): a run in which a stage raised has ended with one error
\* notification, and its message is one that only that stage produces.
C10_ErrorNamesStage ==
    raised_stage # "" =>
        /\ pc = "done"
        /\ NumTerminal(emitted) = 1
        /\ emitted[Len(emitted)].kind = "error"
        /\ \A st \in Stages, c \in Causes :
              ExceptionMessage(ExceptionText(st, c)) = emitted[Len(emitted)].msg
                 => st = raised_stage

\* C11: in the notifications of a run the progress percentages never
\* decrease, nothing follows the terminal notification, and a run that
\* reported 100 has emitted finished.
C11_ProgressMonotone ==
    /\ \A i, j \in DOMAIN emitted :
          (i < j /\ emitted[i].kind = "progress" /\ emitted[j].kind = "progress")
             => emitted[i].pct <= emitted[j].pct
    /\ \A i \in DOMAIN emitted : IsTerminal(emitted[i]) => i = Len(emitted)
    /\ \A i \in DOMAIN emitted :
          (emitted[i].kind = "progress" /\ emitted[i].pct = 100)
             => emitted[Len(emitted)].kind = "finished"

C11_Witness ==
    /\ ended = "finished"
    /\ Len(emitted) = 10
    /\ emitted[9].pct = 100
    /\ emitted[10].kind = "finished"

-----------------------------------------------------------------------------
(* The ergonomic engine (core/ergonomics.py) and the rule query it uses.    *)
(* Distances are centimetres; the positions used below all lie at an        *)
(* integer distance from the origin, so math.sqrt is exact on them.         *)
(* Fractions are exact rationals; a score is held in tenths, the unit of    *)
(* round(score, 1).                                                          *)

PRIORITY_1_PENALTY == 60
PRIORITY_2_PENALTY == 40
PRIORITY_3_PENALTY == 20

Abs(n) == IF n < 0 THEN -n ELSE n

RECURSIVE GCD(_, _)
GCD(a, b) == IF b = 0 THEN a ELSE GCD(b, a % b)

\* a fraction in lowest terms with a positive denominator
Rat(n, d) ==
    LET g == GCD(Abs(n), Abs(d))
        sgn == IF d < 0 THEN -1 ELSE 1
    IN  [num |-> sgn * (n \div g), den |-> sgn * (d \div g)]

RatInt(n) == [num |-> n, den |-> 1]
RatAdd(a, b) == Rat(a.num * b.den + b.num * a.den, a.den * b.den)
RatSub(a, b) == Rat(a.num * b.den - b.num * a.den, a.den * b.den)
RatMul(a, b) == Rat(a.num * b.num, a.den * b.den)
RatLT(a, b) == a.num * b.den < b.num * a.den

\* round(x, 1) of a non-negative fraction, in tenths, ties to even
Round1(x) ==
    LET P == 10 * x.num
        q == P \div x.den
        r == P % x.den
    IN  IF 2 * r < x.den THEN q
        ELSE IF 2 * r > x.den THEN q + 1
        ELSE q + (q % 2)

Tenths(n) == 10 * n

\* Python truthiness of a nullable number: NULL and 0 are both false
Truthy(o) == ~IsNone(o) /\ Val(o) # 0

\* a key that a dict does not have
NoKey == "(absent)"

\* ergonomics.py:156-184.  The first variant ignores the deviation, the
\* second halves the penalty, the third takes every deviation for critical,
\* the fourth gives the larger multiplier to the smaller deviation.
calculate_severity_multiplier_Flat(violation) == Return(RatInt(1))

calculate_severity_multiplier_Half(violation) == Return(Rat(1, 2))

calculate_severity_multiplier_Critical(violation) == Return(RatInt(2))

calculate_severity_multiplier_Inverted(violation) ==
    IF violation.type = NoKey THEN Raise("KeyError")
    ELSE IF violation.type \notin {"too_close", "too_far"} THEN Return(RatInt(1))
    ELSE
      LET current == violation.current_distance
          recommended == IF violation.type = "too_close"
                         THEN Val(violation.recommended_min)
                         ELSE Val(violation.recommended_max)
          beyond == IF violation.type = "too_close"
                    THEN recommended - current ELSE current - recommended
      IN  IF 2 * beyond >= recommended THEN Return(RatInt(1)) ELSE Return(RatInt(2))

calculate_severity_multiplier(violation) ==
    IF violation.type = NoKey THEN Raise("KeyError")
    ELSE IF violation.type \notin {"too_close", "too_far"} THEN Return(RatInt(1))
    ELSE
      LET current == violation.current_distance
          recommended == IF violation.type = "too_close"
                         THEN Val(violation.recommended_min)
                         ELSE Val(violation.recommended_max)
      IN  IF recommended = 0 THEN Raise("ZeroDivisionError")
          ELSE
            LET deviation == IF violation.type = "too_close"
                             THEN Rat(recommended - current, recommended)
                             ELSE Rat(current - recommended, recommended)
            IN  IF RatLT(deviation, Rat(1, 10)) THEN Return(RatInt(1))
                ELSE IF RatLT(deviation, Rat(3, 10))
                     THEN Return(RatAdd(RatInt(1),
                                 RatMul(RatSub(deviation, Rat(1, 10)), Rat(5, 2))))
                ELSE IF RatLT(deviation, Rat(1, 2))
                     THEN Return(RatAdd(Rat(3, 2),
                                 RatMul(RatSub(deviation, Rat(3, 10)), Rat(5, 2))))
                ELSE Return(RatInt(2))

\* ergonomics.py:132-143.  The variant gives every priority the same penalty.
penalty_map_Uniform(priority) == PRIORITY_1_PENALTY

penalty_map(priority) ==
    CASE priority = 1 -> PRIORITY_1_PENALTY
      [] priority = 2 -> PRIORITY_2_PENALTY
      [] priority = 3 -> PRIORITY_3_PENALTY
      [] OTHER -> PRIORITY_3_PENALTY

\* the loop of ergonomics.py:141-151: the totals after the first k violations,
\* or the exception raised on the way
RECURSIVE Penalties(_, _)
Penalties(violations, k) ==
    IF k = 0 THEN Return([total_penalty |-> RatInt(0), max_penalty |-> 0])
    ELSE
      LET before == Penalties(violations, k - 1)
      IN  IF before.kind = "raise" THEN before
          ELSE
            LET base_penalty == penalty_map(violations[k].priority)
                severity_multiplier == calculate_severity_multiplier(violations[k])
            IN  IF severity_multiplier.kind = "raise" THEN severity_multiplier
                ELSE Return(
                  [total_penalty |-> RatAdd(before.val.total_penalty,
                                       RatMul(RatInt(base_penalty), severity_multiplier.val)),
                   max_penalty |-> before.val.max_penalty + base_penalty * 2])

\* the variant divides by the sum of the base penalties and does not clamp
calculate_ergonomic_score_Unclamped(violations) ==
    IF violations = <<>> THEN Return(Tenths(100))
    ELSE
      LET sums == Penalties(violations, Len(violations))
      IN  IF sums.kind = "raise" THEN sums
          ELSE
            LET score == RatSub(RatInt(100),
                           RatMul(sums.val.total_penalty, Rat(2 * 100, sums.val.max_penalty)))
            IN  IF score.num < 0 THEN Return(- Round1(Rat(- score.num, score.den)))
                ELSE Return(Round1(score))

\* ergonomics.py:122-154; the result is in tenths
calculate_ergonomic_score(violations) ==
    IF violations = <<>> THEN Return(Tenths(100))
    ELSE
      LET sums == Penalties(violations, Len(violations))
      IN  IF sums.kind = "raise" THEN sums
          ELSE
            LET raw == RatSub(RatInt(100),
                         RatMul(sums.val.total_penalty, Rat(100, sums.val.max_penalty)))
                score == IF raw.num < 0 THEN RatInt(0) ELSE raw
            IN  Return(Round1(score))

\* list.sort(key=priority) and ORDER BY priority_level ASC: x goes behind
\* every element whose priority is not larger.  The variant sorts descending.
InsertByPriority_Descending(sorted, x) ==
    LET k == Cardinality({ i \in DOMAIN sorted : sorted[i].priority >= x.priority })
    IN  SubSeq(sorted, 1, k) \o <<x>> \o SubSeq(sorted, k + 1, Len(sorted))

InsertByPriority(sorted, x) ==
    LET k == Cardinality({ i \in DOMAIN sorted : sorted[i].priority <= x.priority })
    IN  SubSeq(sorted, 1, k) \o <<x>> \o SubSeq(sorted, k + 1, Len(sorted))

RECURSIVE SortByPriority(_)
SortByPriority(s) ==
    IF s = <<>> THEN <<>>
    ELSE InsertByPriority(SortByPriority(SubSeq(s, 1, Len(s) - 1)), s[Len(s)])

\* str.lower() on the role names used here
Lower(role) == IF role = "Coder" THEN "coder" ELSE role

\* database.py:246-256; the variant returns the rules of every role
get_ergonomic_rules_AnyRole(table, role) == SortByPriority(table)

get_ergonomic_rules(table, role) ==
    SortByPriority(SelectSeq(table, LAMBDA row : row.role_slug = Lower(role)))

\* ergonomics.py:37
Distance(item) == ISqrt(item.x_pos * item.x_pos + item.y_pos * item.y_pos)

\* ergonomics.py:40-61: the violation of one rule by one item, if any
Violation(rule, item) ==
    LET distance == Distance(item)
        common == [type |-> "", item |-> rule.display_name,
                   current_distance |-> distance,
                   recommended_min |-> None, recommended_max |-> None,
                   priority |-> rule.priority, item_data |-> item]
    IN  IF Truthy(rule.min_dist) /\ distance < Val(rule.min_dist)
        THEN Some([common EXCEPT !.type = "too_close",
                                 !.recommended_min = rule.min_dist])
        ELSE IF Truthy(rule.max_dist) /\ distance > Val(rule.max_dist)
        THEN Some([common EXCEPT !.type = "too_far",
                                 !.recommended_max = rule.max_dist])
        ELSE None

\* ergonomics.py:67
OptimalDistance(rule) ==
    IF Truthy(rule.min_dist) /\ Truthy(rule.max_dist)
    THEN Rat(Val(rule.min_dist) + Val(rule.max_dist), 2)
    ELSE IF Truthy(rule.min_dist) THEN RatInt(Val(rule.min_dist))
    ELSE RatInt(Val(rule.max_dist))

\* ergonomics.py:73: the categories mirrored for a left-handed user.  The
\* variant mirrors every category.
Mirrored_Any(item_slug) == TRUE

Mirrored(item_slug) == item_slug \in {"mouse", "keyboard"}

\* ergonomics.py:70-74, in degrees
Angle(rule, handedness) ==
    LET ideal == IF Truthy(rule.ideal_angle) THEN Val(rule.ideal_angle) ELSE 0
    IN  IF handedness = "left" /\ Mirrored(rule.item_slug) THEN - ideal ELSE ideal

\* ergonomics.py:76-87.  The point (r cos a, r sin a) is kept as the pair of
\* r and a, and a move vector as the pair of its end points.
Recommendation(rule, item, handedness, violation) ==
    LET optimal == [r |-> OptimalDistance(rule), deg |-> Angle(rule, handedness)]
        current == <<item.x_pos, item.y_pos>>
    IN  [item |-> rule.display_name,
         current_pos |-> current,
         optimal_pos |-> optimal,
         move_vector |-> [from |-> current, to |-> optimal],
         priority |-> rule.priority,
         violation_type |-> violation.type]

\* ergonomics.py:29-35: the (rule, item) pairs in the order the loops visit them
RECURSIVE Visits(_, _, _)
Visits(rules, items, k) ==
    IF k = 0 THEN <<>>
    ELSE
      LET matching_items == SelectSeq(items,
                               LAMBDA item : item.item_slug = rules[k].item_slug)
      IN  Visits(rules, items, k - 1) \o
          [i \in 1..Len(matching_items) |-> [rule |-> rules[k], item |-> matching_items[i]]]

\* ergonomics.py:15-97, given the rule table and the rows of the scan
analyze_ergonomics(table, items, role, handedness) ==
    LET rules == get_ergonomic_rules(table, role)
        violating == SelectSeq(Visits(rules, items, Len(rules)),
                        LAMBDA v : ~IsNone(Violation(v.rule, v.item)))
        violations == SortByPriority(
             [i \in 1..Len(violating) |->
                 Val(Violation(violating[i].rule, violating[i].item))])
        recommendations == SortByPriority(
             [i \in 1..Len(violating) |->
                 Recommendation(violating[i].rule, violating[i].item, handedness,
                                Val(Violation(violating[i].rule, violating[i].item)))])
    IN  [recommendations |-> recommendations,
         violations |-> violations,
         score |-> calculate_ergonomic_score(violations).val]

-----------------------------------------------------------------------------
(* The pure functions, each applied once to inputs drawn at the start.      *)
(* lastOp names the function; ret holds its arguments and, once applied,    *)
(* its outcome.                                                              *)

MaxRules == 2
MaxItems == 2
MaxViolations == 3

Pending(a) == [kind |-> "pending", err |-> "", val |-> [args |-> a, out |-> None]]
Outcome(a, r) == [kind |-> r.kind, err |-> r.err, val |-> [args |-> a, out |-> r.val]]

Rule(role, slug, mn, mx, angle, prio, name) ==
    [role_slug |-> role, item_slug |-> slug, min_dist |-> mn, max_dist |-> mx,
     ideal_angle |-> angle, priority |-> prio, display_name |-> name]

\* rows of ergonomic_rules joined with item_categories, in insertion order:
\* two seeded rules (database.py:134, 150) and further rules, among them
\* rules with a NULL or 0 bound
RuleRows ==
    << Rule("artist", "keyboard", <<40>>, <<60>>, <<-45>>, 2, "Keyboard"),
       Rule("coder", "keyboard", <<10>>, <<30>>, <<0>>, 1, "Keyboard"),
       Rule("coder", "monitor", <<50>>, <<70>>, <<0>>, 1, "Monitor"),
       Rule("coder", "lamp", <<30>>, <<50>>, <<45>>, 3, "Desk Lamp"),
       Rule("coder", "mouse", <<10>>, <<30>>, <<15>>, 2, "Mouse"),
       Rule("coder", "mouse", None, <<30>>, <<15>>, 2, "Mouse"),
       Rule("coder", "mouse", <<10>>, None, <<15>>, 2, "Mouse"),
       Rule("coder", "mouse", <<0>>, <<30>>, None, 2, "Mouse"),
       Rule("coder", "mouse", <<10>>, <<0>>, <<15>>, 2, "Mouse"),
       Rule("coder", "mouse", None, <<0>>, <<15>>, 2, "Mouse"),
       Rule("coder", "mouse", <<0>>, None, <<15>>, 2, "Mouse"),
       Rule("coder", "mouse", None, None, <<15>>, 2, "Mouse"),
       Rule("coder", "mouse", <<0>>, <<0>>, <<15>>, 2, "Mouse") >>

\* the tables: up to MaxRules consecutive rows
RuleTables ==
    { SubSeq(RuleRows, i, i + n - 1) :
         <<i, n>> \in { w \in (1..Len(RuleRows)) \X (0..MaxRules) :
                           w[1] + w[2] - 1 <= Len(RuleRows) } }

ItemAt(slug, x, y) == [item_slug |-> slug, x_pos |-> x, y_pos |-> y]

ScanItems ==
    { ItemAt("mouse", 0, 0), ItemAt("mouse", 3, 4), ItemAt("mouse", 6, 8),
      ItemAt("mouse", 0, 30), ItemAt("mouse", 27, 36), ItemAt("keyboard", 3, 4),
      ItemAt("monitor", 0, -40), ItemAt("lamp", 36, 48), ItemAt("cup", 3, 4) }

SeqsUpTo(S, n) == UNION { [1..k -> S] : k \in 0..n }

Roles == { "coder", "Coder", "chef" }
Hands == { "left", "right" }

AnalyzeArgs ==
    [table : RuleTables, items : SeqsUpTo(ScanItems, MaxItems),
     role : Roles, handedness : Hands]

ViolationOf(type, current, mn, mx, prio) ==
    [type |-> type, item |-> "Mouse", current_distance |-> current,
     recommended_min |-> mn, recommended_max |-> mx, priority |-> prio,
     item_data |-> ItemAt("mouse", 0, current)]

\* violations of every severity band and priority, one of an unknown type and
\* one without a type
ViolationInputs ==
    { ViolationOf("too_close", 5, <<10>>, None, p) : p \in 1..4 } \cup
    { ViolationOf("too_close", 8, <<10>>, None, p) : p \in 1..3 } \cup
    { ViolationOf("too_far", 42, None, <<30>>, p) : p \in 1..3 } \cup
    { ViolationOf("too_far", 31, None, <<30>>, p) : p \in 1..3 } \cup
    { ViolationOf("blocked", 5, None, None, 1), ViolationOf(NoKey, 5, None, None, 1) }

ScoreArgs == [violations : SeqsUpTo(ViolationInputs, MaxViolations)]

\* detector.py:115, the default of distance_threshold
DISTANCE_THRESHOLD == 100

\* detector.py:130-136: the categories in the order of their first detection
RECURSIVE Slugs(_, _)
Slugs(items, k) ==
    IF k = 0 THEN <<>>
    ELSE LET before == Slugs(items, k - 1)
         IN  IF \E i \in DOMAIN before : before[i] = items[k].slug
             THEN before ELSE Append(before, items[k].slug)

\* detector.py:146, list.sort(key=confidence, reverse=True): x goes behind
\* every element whose confidence is not smaller.  The variant sorts ascending.
InsertByConfidence_Ascending(sorted, x) ==
    LET k == Cardinality({ i \in DOMAIN sorted : sorted[i].confidence <= x.confidence })
    IN  SubSeq(sorted, 1, k) \o <<x>> \o SubSeq(sorted, k + 1, Len(sorted))

InsertByConfidence(sorted, x) ==
    LET k == Cardinality({ i \in DOMAIN sorted : sorted[i].confidence >= x.confidence })
    IN  SubSeq(sorted, 1, k) \o <<x>> \o SubSeq(sorted, k + 1, Len(sorted))

RECURSIVE SortByConfidence(_)
SortByConfidence(s) ==
    IF s = <<>> THEN <<>>
    ELSE InsertByConfidence(SortByConfidence(SubSeq(s, 1, Len(s) - 1)), s[Len(s)])

\* detector.py:154-158: (dx**2 + dy**2)**0.5 < distance_threshold
Near(item, kept, distance_threshold) ==
    /\ distance_threshold > 0
    /\ SqDist(<<kept.x, kept.y>>, <<item.x, item.y>>)
          < distance_threshold * distance_threshold

\* detector.py:149-164: kept_items after the first k items of the sorted group
RECURSIVE KeptItems(_, _, _)
KeptItems(slug_items, k, distance_threshold) ==
    IF k = 0 THEN <<>>
    ELSE LET kept_items == KeptItems(slug_items, k - 1, distance_threshold)
             is_duplicate == \E i \in DOMAIN kept_items :
                                Near(slug_items[k], kept_items[i], distance_threshold)
         IN  IF is_duplicate THEN kept_items ELSE Append(kept_items, slug_items[k])

\* detector.py:139-166: filtered_items after the first k groups.  The variant
\* compares the detections of all categories with each other.
FilteredItems_Ungrouped(items, slugs, k, distance_threshold) ==
    IF k = 0 THEN <<>>
    ELSE KeptItems(SortByConfidence(items), Len(items), distance_threshold)

RECURSIVE FilteredItems(_, _, _, _)
FilteredItems(items, slugs, k, distance_threshold) ==
    IF k = 0 THEN <<>>
    ELSE LET slug_items == SelectSeq(items, LAMBDA item : item.slug = slugs[k])
             before == FilteredItems(items, slugs, k - 1, distance_threshold)
         IN  IF Len(slug_items) = 1 THEN before \o slug_items
             ELSE before \o KeptItems(SortByConfidence(slug_items), Len(slug_items),
                                      distance_threshold)

\* detector.py:115-171
remove_duplicates(items, distance_threshold) ==
    IF items = <<>> THEN items
    ELSE LET slugs == Slugs(items, Len(items))
         IN  FilteredItems(items, slugs, Len(slugs), distance_threshold)

MaxDetections == 3

Detection(slug, x, y, confidence) ==
    [slug |-> slug, x |-> x, y |-> y, confidence |-> confidence]

\* detections 60, 100 and 160 pixels apart, confidences in percent
Detections ==
    { Detection(slug, p[1], p[2], c) :
        slug \in {"keyboard", "mouse"},
        p \in { <<0, 0>>, <<60, 0>>, <<60, 80>>, <<160, 0>> },
        c \in {50, 90} }

DedupeArgs == [items : SeqsUpTo(Detections, MaxDetections)]

\* config.py:44-45, in tenths of a centimetre
CARD_WIDTH_MM == 85
CARD_HEIGHT_MM == 54

\* calibration.py:72-84: the number a stored scale stands for, the edges
\* having integer lengths
ScaleValue(scale) ==
    LET scale_x == Rat(10 * (ISqrt(scale.width_pixels[1]) + ISqrt(scale.width_pixels[2])),
                       2 * CARD_WIDTH_MM)
        scale_y == Rat(10 * (ISqrt(scale.height_pixels[1]) + ISqrt(scale.height_pixels[2])),
                       2 * CARD_HEIGHT_MM)
    IN  RatMul(RatAdd(scale_x, scale_y), Rat(1, 2))

\* the corners of an axis-aligned rectangle, from the top left clockwise
Rectangle(x, y, W, H) == << <<x, y>>, <<x + W, y>>, <<x + W, y + H>>, <<x, y + H>> >>

Rectangles ==
    { Rectangle(x, 0, W, H) :
        x \in {0, 3},
        W \in {9, 10, 85, 170, 10000, 10001},
        H \in {9, 10, 54, 10000, 10001} }

RatDiv(a, b) == Rat(a.num * b.den, a.den * b.num)

\* calibration.py:97: the number a converted length stands for, the pixel
\* length being rational
CmValue(cm) ==
    RatDiv(Rat(Val(cm).pixels.num, Val(cm).pixels.den), ScaleValue(Val(cm).over))

\* the cards a session was calibrated with: 10 and 15 pixels per cm
Cards == { Rectangle(0, 0, 85, 54), Rectangle(0, 0, 170, 54) }

\* desks: two rectangles, a slanted quadrilateral, and one whose centre is
\* not at whole pixels
Desks ==
    { << <<100, 100>>, <<1300, 100>>, <<1300, 700>>, <<100, 700>> >>,
      << <<300, 300>>, <<700, 300>>, <<700, 700>>, <<300, 700>> >>,
      << <<0, 0>>, <<100, 10>>, <<90, 80>>, <<10, 70>> >>,
      << <<0, 0>>, <<101, 10>>, <<90, 80>>, <<10, 71>> >> }

Pixels == { <<700, 400>>, <<500, 500>>, <<600, 500>>, <<50, 40>>, <<0, 0>> }

\* ergonomics.py:215, the radius of a warning zone in cm
ZONE_RADIUS == 30

\* ergonomics.py:207.  The variant colours only priority 1 green.
ArrowColor_Priority1(priority) == IF priority <= 1 THEN "green" ELSE "yellow"

ArrowColor(priority) == IF priority <= 2 THEN "green" ELSE "yellow"

\* ergonomics.py:204-209
Arrow(rec) ==
    [from |-> rec.current_pos, to |-> rec.optimal_pos,
     color |-> ArrowColor(rec.priority), item |-> rec.item]

\* ergonomics.py:212-219
Zone(rec) ==
    [center |-> rec.current_pos, radius |-> ZONE_RADIUS, color |-> "red",
     alpha |-> Rat(3, 10), label |-> <<rec.item, " too close">>]

\* ergonomics.py:221-226
Label(rec) ==
    [position |-> rec.optimal_pos, text |-> rec.advice, color |-> "white",
     background |-> "rgba(0,0,0,0.7)"]

\* ergonomics.py:197-226: overlay_data after the first k recommendations
RECURSIVE OverlayAfter(_, _)
OverlayAfter(recommendations, k) ==
    IF k = 0 THEN [arrows |-> <<>>, zones |-> <<>>, labels |-> <<>>]
    ELSE LET before == OverlayAfter(recommendations, k - 1)
             rec == recommendations[k]
         IN  [arrows |-> Append(before.arrows, Arrow(rec)),
              zones |-> IF rec.violation_type = "too_close"
                        THEN Append(before.zones, Zone(rec)) ELSE before.zones,
              labels |-> Append(before.labels, Label(rec))]

\* ergonomics.py:186-228
generate_overlay_data(recommendations) ==
    OverlayAfter(recommendations, Len(recommendations))

MaxRecommendations == 3

\* recommendations as the analysis returns them, with their advice text
OverlayRecommendations ==
    { [item |-> r[1], current_pos |-> r[2], optimal_pos |-> <<40, 10>>,
       advice |-> r[3], priority |-> p, violation_type |-> t] :
         r \in { <<"Keyboard", <<10, 20>>, "Move keyboard closer">>,
                 <<"Monitor", <<5, 10>>, "Move monitor away">> },
         p \in 1..3,
         t \in {"too_close", "too_far"} }

OverlayArgs == [recommendations : SeqsUpTo(OverlayRecommendations, MaxRecommendations)]

FnUnchanged ==
    UNCHANGED <<guivars, wrkvars, sigq, dbvars, obsvars, interleaved>>

ApplyAnalyze ==
    /\ lastOp = "analyze_ergonomics"
    /\ ret.kind = "pending"
    /\ LET a == ret.val.args
       IN  ret' = Outcome(a, Return(analyze_ergonomics(a.table, a.items, a.role,
                                                           a.handedness)))
    /\ UNCHANGED <<lastOp, calvars>>
    /\ FnUnchanged

ApplyScore ==
    /\ lastOp = "calculate_ergonomic_score"
    /\ ret.kind = "pending"
    /\ ret' = Outcome(ret.val.args, calculate_ergonomic_score(ret.val.args.violations))
    /\ UNCHANGED <<lastOp, calvars>>
    /\ FnUnchanged

ApplyRemoveDuplicates ==
    /\ lastOp = "_remove_duplicates"
    /\ ret.kind = "pending"
    /\ ret' = Outcome(ret.val.args,
                      Return(remove_duplicates(ret.val.args.items, DISTANCE_THRESHOLD)))
    /\ UNCHANGED <<lastOp, calvars>>
    /\ FnUnchanged

ApplyCalculateScaleFactor ==
    /\ lastOp = "calculate_scale_factor"
    /\ ret.kind = "pending"
    /\ LET r == calculate_scale_factor(calibration_points, scale_factor)
       IN  /\ scale_factor' = r.scale_factor
           /\ ret' = Outcome(ret.val.args, r.out)
    /\ UNCHANGED <<lastOp, calibration_points, desk_corners>>
    /\ FnUnchanged

ApplyTransformToDeskCoordinates ==
    /\ lastOp = "transform_to_desk_coordinates"
    /\ ret.kind = "pending"
    /\ ret' = Outcome(ret.val.args,
                      Return(transform_to_desk_coordinates(desk_corners, scale_factor,
                                 ret.val.args.x, ret.val.args.y)))
    /\ UNCHANGED <<lastOp, calvars>>
    /\ FnUnchanged

ApplyGenerateOverlayData ==
    /\ lastOp = "generate_overlay_data"
    /\ ret.kind = "pending"
    /\ ret' = Outcome(ret.val.args,
                      Return(generate_overlay_data(ret.val.args.recommendations)))
    /\ UNCHANGED <<lastOp, calvars>>
    /\ FnUnchanged

InitFn ==
    /\ WindowInit
    /\ NoWorker
    /\ scans = <<>>
    /\ db_items = <<>>
    /\ emitted = <<>>
    /\ run_saves = 0
    /\ ended = ""
    /\ raised_stage = ""
    /\ interleaved = 0
    /\ \/ /\ lastOp = "analyze_ergonomics"
          /\ ret \in { Pending(a) : a \in AnalyzeArgs }
          /\ CalibrationInit
       \/ /\ lastOp = "calculate_ergonomic_score"
          /\ ret \in { Pending(a) : a \in ScoreArgs }
          /\ CalibrationInit
       \/ /\ lastOp = "_remove_duplicates"
          /\ ret \in { Pending(a) : a \in DedupeArgs }
          /\ CalibrationInit
       \/ /\ lastOp = "calculate_scale_factor"
          /\ calibration_points \in Rectangles
          /\ desk_corners = <<>>
          /\ scale_factor = None
          /\ ret = Pending([points |-> calibration_points])
       \/ /\ lastOp = "generate_overlay_data"
          /\ ret \in { Pending(a) : a \in OverlayArgs }
          /\ CalibrationInit
       \/ /\ lastOp = "transform_to_desk_coordinates"
          /\ calibration_points \in Cards
          /\ scale_factor = Some(ScaleOf(calibration_points))
          /\ desk_corners \in Desks
          /\ ret \in { Pending([x |-> p[1], y |-> p[2]]) : p \in Pixels }

NextFn ==
    \/ ApplyAnalyze
    \/ ApplyScore
    \/ ApplyRemoveDuplicates
    \/ ApplyCalculateScaleFactor
    \/ ApplyTransformToDeskCoordinates
    \/ ApplyGenerateOverlayData

SpecFn == InitFn /\ [][NextFn]_vars

Applied(op) == lastOp = op /\ ret.kind # "pending"
Args == ret.val.args
Out == ret.val.out

-----------------------------------------------------------------------------
(* Claims on the ergonomic engine, checked on SpecFn *)

\* what identifies a violation: kind, item, distance, bound and priority
Descr(v) ==
    <<v.type, v.item_data, v.current_distance, v.recommended_min,
      v.recommended_max, v.priority>>

Count(s, x) == Cardinality({ i \in DOMAIN s : s[i] = x })

SameBag(s, t) ==
    \A x \in { s[i] : i \in DOMAIN s } \cup { t[i] : i \in DOMAIN t } :
        Count(s, x) = Count(t, x)

\* the violation the rule text gives for one rule and one item, a bound
\* counting as set whenever it is not NULL
C12_Expected(rule, item) ==
    LET d == Distance(item)
    IN  IF ~IsNone(rule.min_dist) /\ d < Val(rule.min_dist)
        THEN << <<"too_close", item, d, rule.min_dist, None, rule.priority>> >>
        ELSE IF ~IsNone(rule.max_dist) /\ d > Val(rule.max_dist)
        THEN << <<"too_far", item, d, None, rule.max_dist, rule.priority>> >>
        ELSE <<>>

RECURSIVE C12_ExpectedAll(_, _)
C12_ExpectedAll(visits, k) ==
    IF k = 0 THEN <<>>
    ELSE C12_ExpectedAll(visits, k - 1) \o C12_Expected(visits[k].rule, visits[k].item)

\* C12: for every item and every rule of the role matching its category the
\* analysis reports too_close exactly when the minimum is set and the
\* distance is below it, otherwise too_far exactly when the maximum is set
\* and the distance is above it, otherwise nothing; a distance equal to a
\* bound is no violation and a bound of 0 counts as set.
C12_ViolationExactlyWhenOutsideSetBounds ==
    Applied("analyze_ergonomics") =>
        LET rules == get_ergonomic_rules(Args.table, Args.role)
            visits == Visits(rules, Args.items, Len(rules))
        IN  SameBag(C12_ExpectedAll(visits, Len(visits)),
                    [i \in DOMAIN Out.violations |-> Descr(Out.violations[i])])

Ascending(s) == \A i, j \in DOMAIN s : i < j => s[i].priority <= s[j].priority

\* C13: the violations and the recommendations returned by
\* analyze_ergonomics are each in ascending order of rule priority, whatever
\* the items, the rules and the handedness.
C13_SortedByPriority ==
    Applied("analyze_ergonomics") =>
        /\ Ascending(Out.violations)
        /\ Ascending(Out.recommendations)
        /\ Len(Out.recommendations) = Len(Out.violations)

C13_Witness ==
    /\ Applied("analyze_ergonomics")
    /\ Len(Args.table) = 2
    /\ Args.table[1].priority > Args.table[2].priority
    /\ Len(Out.violations) = 2
    /\ Out.violations[1].priority < Out.violations[2].priority
    /\ Out.recommendations[1].priority < Out.recommendations[2].priority

\* a violation as the analysis builds it: a kind and the bound it broke
WellFormed(v) == v.type \in {"too_close", "too_far"}

\* C14: calculate_ergonomic_score returns 100 for the empty list and, for
\* every list of violations of any length, priorities (also outside 1..3) and
\* distances, a value from 0 to 100; so does the score of an analysis.
C14_ScoreInRange ==
    /\ Applied("calculate_ergonomic_score") =>
          /\ Args.violations = <<>> => (ret.kind = "return" /\ Out = Tenths(100))
          /\ (\A i \in DOMAIN Args.violations : WellFormed(Args.violations[i]))
                => (ret.kind = "return" /\ Out >= 0 /\ Out <= Tenths(100))
    /\ Applied("analyze_ergonomics") =>
          /\ Out.score >= 0 /\ Out.score <= Tenths(100)
          /\ Out.violations = <<>> => Out.score = Tenths(100)

C14_Witness ==
    /\ Applied("calculate_ergonomic_score")
    /\ Len(Args.violations) >= 2
    /\ \A i \in DOMAIN Args.violations : WellFormed(Args.violations[i])
    /\ \E i \in DOMAIN Args.violations : Args.violations[i].priority \notin 1..3
    /\ ret.kind = "return"
    /\ Out = 0

\* the bound a violation broke and how far beyond it the item is
Bound(v) == IF v.type = "too_close" THEN Val(v.recommended_min) ELSE Val(v.recommended_max)
Beyond(v) == IF v.type = "too_close" THEN Bound(v) - v.current_distance
             ELSE v.current_distance - Bound(v)

Minor(v) == WellFormed(v) => 10 * Beyond(v) < Bound(v)
Critical(v) == WellFormed(v) /\ 2 * Beyond(v) >= Bound(v)

C16_Base(priority) == CASE priority = 1 -> 60 [] priority = 2 -> 40 [] OTHER -> 20

RECURSIVE C16_SumBase(_, _)
C16_SumBase(vs, k) ==
    IF k = 0 THEN 0 ELSE C16_SumBase(vs, k - 1) + C16_Base(vs[k].priority)

\* base penalties weighted by 1 (minor violation) or 2 (critical violation)
RECURSIVE C16_SumWeighted(_, _)
C16_SumWeighted(vs, k) ==
    IF k = 0 THEN 0
    ELSE C16_SumWeighted(vs, k - 1) +
         C16_Base(vs[k].priority) * (IF Critical(vs[k]) THEN 2 ELSE 1)

RuleSlugs(table, role) ==
    { table[i].item_slug : i \in { j \in DOMAIN table : table[j].role_slug = Lower(role) } }

\* C17: the analysis of a role without rules returns no violations, no
\* recommendations and the score 100, and an item whose category no rule of
\* the role names adds no violation and no recommendation and leaves the
\* score as it is without the item.
C17_UnmatchedContributesNothing ==
    Applied("analyze_ergonomics") =>
        LET slugs == RuleSlugs(Args.table, Args.role)
            matched == SelectSeq(Args.items, LAMBDA item : item.item_slug \in slugs)
        IN  /\ ret.kind = "return"
            /\ slugs = {} =>
                  Out = [recommendations |-> <<>>, violations |-> <<>>,
                         score |-> Tenths(100)]
            /\ \A i \in DOMAIN Out.violations :
                  Out.violations[i].item_data.item_slug \in slugs
            /\ Out = analyze_ergonomics(Args.table, matched, Args.role, Args.handedness)

C17_Witness ==
    /\ Applied("analyze_ergonomics")
    /\ Args.role = "chef"
    /\ \E i \in DOMAIN Args.table, j \in DOMAIN Args.items :
          /\ Args.table[i].item_slug = Args.items[j].item_slug
          /\ ~IsNone(Violation(Args.table[i], Args.items[j]))
    /\ Out.violations = <<>>
    /\ Out.recommendations = <<>>
    /\ Out.score = Tenths(100)

\* the optimal position of a recommendation with its angle negated
Mirror(rec) ==
    LET m == [rec.optimal_pos EXCEPT !.deg = - rec.optimal_pos.deg]
    IN  [rec EXCEPT !.optimal_pos = m, !.move_vector = [from |-> rec.current_pos, to |-> m]]

\* C18: for the same items and rules the analysis of a left-handed and of a
\* right-handed user give the same violations and score and the same
\* recommendations, except that for a mouse or a keyboard the optimal
\* position is computed from the negated ideal angle.
C18_HandednessMirrorsOnlyMouseAndKeyboard ==
    Applied("analyze_ergonomics") =>
        LET other == IF Args.handedness = "left" THEN "right" ELSE "left"
            there == analyze_ergonomics(Args.table, Args.items, Args.role, other)
        IN  /\ there.violations = Out.violations
            /\ there.score = Out.score
            /\ Len(there.recommendations) = Len(Out.violations)
            /\ Len(Out.recommendations) = Len(Out.violations)
            /\ \A i \in DOMAIN Out.recommendations :
                  IF Out.violations[i].item_data.item_slug \in {"mouse", "keyboard"}
                  THEN there.recommendations[i] = Mirror(Out.recommendations[i])
                  ELSE there.recommendations[i] = Out.recommendations[i]

C18_Witness ==
    /\ Applied("analyze_ergonomics")
    /\ Args.handedness = "left"
    /\ Len(Out.violations) = 2
    /\ Out.violations[1].item_data.item_slug = "mouse"
    /\ Out.recommendations[1].optimal_pos.deg = -15
    /\ Out.violations[2].item_data.item_slug = "lamp"
    /\ Out.recommendations[2].optimal_pos.deg = 45

-----------------------------------------------------------------------------
(* Claims on deduplication and on the scale, checked on SpecFn *)

DistSq(a, b) == (a.x - b.x) * (a.x - b.x) + (a.y - b.y) * (a.y - b.y)

\* items a, b, c are one category, a has the highest confidence, b is closer
\* to a than the threshold and c is farther from a
C19_Case(items, a, b, c) ==
    /\ {a, b, c} = 1..3
    /\ items[a].slug = items[b].slug /\ items[a].slug = items[c].slug
    /\ items[a].confidence > items[b].confidence
    /\ items[a].confidence > items[c].confidence
    /\ DistSq(items[a], items[b]) < DISTANCE_THRESHOLD * DISTANCE_THRESHOLD
    /\ DistSq(items[a], items[c]) > DISTANCE_THRESHOLD * DISTANCE_THRESHOLD

\* C19: of three detections of one category, A with the highest confidence,
\* B closer to A than the threshold and C farther from A than the threshold,
\* exactly A and C are returned; and of every category a detection with the
\* category's highest confidence (the first of them in the input) is returned.
C19_KeepsBestAndFar ==
    Applied("_remove_duplicates") =>
        LET items == Args.items
        IN  /\ Len(items) = 3 =>
                 \A a, b, c \in 1..3 :
                     C19_Case(items, a, b, c) => Out = <<items[a], items[c]>>
            /\ \A i \in DOMAIN items :
                 (/\ \A j \in DOMAIN items :
                        items[j].slug = items[i].slug
                           => items[j].confidence <= items[i].confidence
                  /\ \A j \in 1..(i - 1) :
                        items[j].slug = items[i].slug
                           => items[j].confidence < items[i].confidence)
                    => \E k \in DOMAIN Out : Out[k] = items[i]
            /\ \A k \in DOMAIN Out : \E i \in DOMAIN items : Out[k] = items[i]

C19_Witness ==
    /\ Applied("_remove_duplicates")
    /\ Len(Args.items) = 3
    /\ C19_Case(Args.items, 3, 1, 2)
    /\ Out = <<Args.items[3], Args.items[2]>>

\* C20: for 4 calibration points that are the corners of an axis-aligned
\* rectangle of W by H pixels, both within the pixel bounds, and the
\* reference card of 8.5 by 5.4 cm, calculate_scale_factor stores and returns
\* (W / 8.5 + H / 5.4) / 2; the corners (0,0), (85,0), (85,54), (0,54) give 10.
C20_RectangleScale ==
    Applied("calculate_scale_factor") =>
        LET p == Args.points
            W == p[2][1] - p[1][1]
            H == p[4][2] - p[1][2]
        IN  /\ (/\ W >= MIN_CALIBRATION_PIXELS /\ W <= MAX_CALIBRATION_PIXELS
                /\ H >= MIN_CALIBRATION_PIXELS /\ H <= MAX_CALIBRATION_PIXELS)
                  => /\ ret.kind = "return"
                     /\ ~IsNone(Out)
                     /\ scale_factor = Out
                     /\ ScaleValue(Val(Out)) =
                           Rat(10 * W * CARD_HEIGHT_MM + 10 * H * CARD_WIDTH_MM,
                               2 * CARD_WIDTH_MM * CARD_HEIGHT_MM)
            /\ p = << <<0, 0>>, <<85, 0>>, <<85, 54>>, <<0, 54>> >>
                  => (ret.kind = "return" /\ ScaleValue(Val(scale_factor)) = RatInt(10))

C20_Witness ==
    /\ Applied("calculate_scale_factor")
    /\ Args.points = << <<0, 0>>, <<85, 0>>, <<85, 54>>, <<0, 54>> >>
    /\ ret.kind = "return"
    /\ scale_factor = Out
    /\ ScaleValue(Val(Out)) = RatInt(10)

\* the mean of the k-th coordinates of the desk corners
C21_Mean(k) ==
    Rat(desk_corners[1][k] + desk_corners[2][k] + desk_corners[3][k] + desk_corners[4][k], 4)

\* C21: with a scale set and 4 desk corners, of any quadrilateral,
\* transform_to_desk_coordinates maps a pixel (x, y) to ((x - cx) / scale,
\* (y - cy) / scale), (cx, cy) being the mean of the corners, hence the mean
\* itself to (0, 0); corners (100,100), (1300,100), (1300,700), (100,700) map
\* the pixel (700, 400) to (0, 0).
C21_TransformRelativeToMean ==
    Applied("transform_to_desk_coordinates") =>
        LET scale == ScaleValue(Val(scale_factor))
        IN  /\ ~IsNone(Out[1]) /\ ~IsNone(Out[2])
            /\ CmValue(Out[1]) = RatDiv(RatSub(RatInt(Args.x), C21_Mean(1)), scale)
            /\ CmValue(Out[2]) = RatDiv(RatSub(RatInt(Args.y), C21_Mean(2)), scale)
            /\ (RatInt(Args.x) = C21_Mean(1) /\ RatInt(Args.y) = C21_Mean(2))
                  => (CmValue(Out[1]) = RatInt(0) /\ CmValue(Out[2]) = RatInt(0))

C21_Witness ==
    /\ Applied("transform_to_desk_coordinates")
    /\ desk_corners = << <<100, 100>>, <<1300, 100>>, <<1300, 700>>, <<100, 700>> >>
    /\ Args = [x |-> 700, y |-> 400]
    /\ CmValue(Out[1]) = RatInt(0)
    /\ CmValue(Out[2]) = RatInt(0)

\* C22: for n recommendations generate_overlay_data returns n arrows and n
\* labels in the order of the recommendations (an arrow from the current to
\* the optimal position, green for priority 1 and 2 and yellow otherwise; a
\* label at the optimal position with the advice text) and one red zone of
\* radius 30 at the current position for each too_close recommendation, none
\* for the others, in the same order.
C22_OverlayMirrorsRecommendations ==
    Applied("generate_overlay_data") =>
        LET recs == Args.recommendations
            close == SelectSeq(recs, LAMBDA r : r.violation_type = "too_close")
        IN  /\ Len(Out.arrows) = Len(recs)
            /\ Len(Out.labels) = Len(recs)
            /\ \A i \in DOMAIN recs :
                  /\ Out.arrows[i].from = recs[i].current_pos
                  /\ Out.arrows[i].to = recs[i].optimal_pos
                  /\ Out.arrows[i].item = recs[i].item
                  /\ Out.arrows[i].color =
                        (IF recs[i].priority \in {1, 2} THEN "green" ELSE "yellow")
                  /\ Out.labels[i].position = recs[i].optimal_pos
                  /\ Out.labels[i].text = recs[i].advice
            /\ Len(Out.zones) = Len(close)
            /\ \A j \in DOMAIN close :
                  /\ Out.zones[j].center = close[j].current_pos
                  /\ Out.zones[j].radius = 30
                  /\ Out.zones[j].color = "red"

C22_Witness ==
    /\ Applied("generate_overlay_data")
    /\ Len(Args.recommendations) = 3
    /\ Args.recommendations[1].violation_type = "too_far"
    /\ Args.recommendations[1].priority = 3
    /\ Args.recommendations[2].violation_type = "too_close"
    /\ Args.recommendations[2].priority = 2
    /\ Args.recommendations[3].violation_type = "too_close"
    /\ Args.recommendations[2].item # Args.recommendations[3].item
    /\ Len(Out.arrows) = 3
    /\ Len(Out.zones) = 2
    /\ Out.arrows[1].color = "yellow"
    /\ Out.arrows[2].color = "green"
    /\ Out.zones[1].center = Args.recommendations[2].current_pos

\* violation w deviates from its bound at least as much, relative to the
\* bound, as violation v
AtLeastAsSevere(w, v) == Beyond(w) * Bound(v) >= Beyond(v) * Bound(w)

\* C23: of two sets of one violation each, with the same priority, the one
\* whose distance deviates more from the violated bound, relative to the
\* bound, never has the higher score.
C23_ScoreMonotoneInSeverity ==
    (/\ Applied("calculate_ergonomic_score")
     /\ Len(Args.violations) = 1
     /\ WellFormed(Args.violations[1]))
        => \A w \in ViolationInputs :
              (/\ WellFormed(w)
               /\ w.priority = Args.violations[1].priority
               /\ AtLeastAsSevere(w, Args.violations[1]))
                 => calculate_ergonomic_score(<<w>>).val <= Out

C23_Witness ==
    /\ Applied("calculate_ergonomic_score")
    /\ Len(Args.violations) = 1
    /\ WellFormed(Args.violations[1])
    /\ Out = 375
    /\ \E w \in ViolationInputs :
          /\ WellFormed(w)
          /\ w.priority = Args.violations[1].priority
          /\ AtLeastAsSevere(w, Args.violations[1])
          /\ ~AtLeastAsSevere(Args.violations[1], w)
          /\ calculate_ergonomic_score(<<w>>).val = 125

\* C24: any two items of one category that _remove_duplicates returns are
\* more than the distance threshold apart: an item is kept only if its
\* distance to every item kept before it exceeds the threshold, and an item
\* exactly the threshold away from a kept one is discarded.
C24_KeptItemsFartherThanThreshold ==
    Applied("_remove_duplicates") =>
        \A i, j \in DOMAIN Out :
            (i < j /\ Out[i].slug = Out[j].slug)
               => DistSq(Out[i], Out[j]) > DISTANCE_THRESHOLD * DISTANCE_THRESHOLD

OfSlug(items, slug) == SelectSeq(items, LAMBDA item : item.slug = slug)

\* C25: _remove_duplicates only removes: every returned item is an input
\* item with all its fields, none is returned more often than it was given,
\* and the items returned of a category are those returned when the items of
\* the other categories are absent.
C25_OnlyRemoves ==
    Applied("_remove_duplicates") =>
        /\ \A k \in DOMAIN Out :
              /\ \E i \in DOMAIN Args.items : Out[k] = Args.items[i]
              /\ Count(Out, Out[k]) <= Count(Args.items, Out[k])
        /\ Len(Out) <= Len(Args.items)
        /\ \A slug \in { Args.items[i].slug : i \in DOMAIN Args.items } :
              OfSlug(Out, slug) =
                 remove_duplicates(OfSlug(Args.items, slug), DISTANCE_THRESHOLD)

C25_Witness ==
    /\ Applied("_remove_duplicates")
    /\ Len(Args.items) = 3
    /\ Len(Out) = 2
    /\ Out[1].slug # Out[2].slug
    /\ DistSq(Out[1], Out[2]) < DISTANCE_THRESHOLD * DISTANCE_THRESHOLD
    /\ Out[2].confidence < Out[1].confidence

Front(s) == SubSeq(s, 1, Len(s) - 1)
Last(s) == s[Len(s)]

\* C26: adding a priority-3 violation to a non-empty set can raise the
\* score.  It does so whenever the violations of the set are all critical
\* (the set scores 0.0) and the added one is not, and it never does when the
\* added one is critical, because the denominator then grows by twice its
\* base penalty and the numerator by as much.
C26_AddingViolationCanRaiseScore ==
    (/\ Applied("calculate_ergonomic_score")
     /\ Len(Args.violations) >= 2
     /\ \A i \in DOMAIN Args.violations : WellFormed(Args.violations[i])
     /\ Last(Args.violations).priority = 3)
        => LET V == Front(Args.violations)
               v == Last(Args.violations)
               before == calculate_ergonomic_score(V).val
           IN  /\ ((\A i \in DOMAIN V : Critical(V[i])) /\ ~Critical(v))
                     => (before = 0 /\ Out > before)
               /\ Out > before => ~Critical(v)

C26_Witness ==
    /\ Applied("calculate_ergonomic_score")
    /\ Len(Args.violations) = 2
    /\ Args.violations[1].priority = 1
    /\ Critical(Args.violations[1])
    /\ Args.violations[2].priority = 3
    /\ WellFormed(Args.violations[2])
    /\ Minor(Args.violations[2])
    /\ calculate_ergonomic_score(Front(Args.violations)).val = 0
    /\ Out = 125

\* the optimal distance of the rule text: the midpoint when both bounds are
\* set, otherwise the bound that is set
C27_OptimalDistance(rule) ==
    IF ~IsNone(rule.min_dist) /\ ~IsNone(rule.max_dist)
    THEN Rat(Val(rule.min_dist) + Val(rule.max_dist), 2)
    ELSE IF ~IsNone(rule.min_dist) THEN RatInt(Val(rule.min_dist))
    ELSE RatInt(Val(rule.max_dist))

\* no violation of the rule at distance d from the origin
C27_Satisfies(rule, d) ==
    /\ ~IsNone(rule.min_dist) => ~RatLT(d, RatInt(Val(rule.min_dist)))
    /\ ~IsNone(rule.max_dist) => ~RatLT(RatInt(Val(rule.max_dist)), d)

\* C27: analyze_ergonomics returns one recommendation per violation, in the
\* same order, and the optimal position of each lies at the midpoint of the
\* rule's bounds when both are set and at the set bound otherwise, a distance
\* at which the rule, where its bounds allow one, is not violated.
C27_OptimalPositionSatisfiesRule ==
    Applied("analyze_ergonomics") =>
        /\ Len(Out.recommendations) = Len(Out.violations)
        /\ \A i \in DOMAIN Out.violations :
              LET v == Out.violations[i]
                  rec == Out.recommendations[i]
                  rules == get_ergonomic_rules(Args.table, Args.role)
              IN  /\ rec.item = v.item
                  /\ rec.priority = v.priority
                  /\ rec.violation_type = v.type
                  /\ rec.current_pos = <<v.item_data.x_pos, v.item_data.y_pos>>
                  /\ \E k \in DOMAIN rules :
                        /\ Violation(rules[k], v.item_data) = Some(v)
                        /\ rec.optimal_pos.r = C27_OptimalDistance(rules[k])
                        /\ (IsNone(rules[k].min_dist) \/ IsNone(rules[k].max_dist)
                               \/ Val(rules[k].min_dist) <= Val(rules[k].max_dist))
                              => C27_Satisfies(rules[k], rec.optimal_pos.r)

-----------------------------------------------------------------------------
(* The session under the scheduling the program runs with: the worker's     *)
(* thread keeps running until run() returns, and the main thread's event    *)
(* loop takes every queued signal.  The user owes no action.                *)

WorkerStep ==
    \/ WorkerStart
    \/ WorkerDetect
    \/ WorkerCheckTransform
    \/ WorkerLoop
    \/ WorkerTransformWidth
    \/ WorkerTransformHeight
    \/ WorkerCheckPersist
    \/ WorkerSaveScan
    \/ WorkerSaveItems
    \/ WorkerCheckRules
    \/ WorkerRules
    \/ WorkerFinalize

SpecLive == Init /\ [][Next]_vars /\ WF_vars(WorkerStep) /\ WF_vars(DeliverSignal)

\* run() has returned: by finished.emit, by error.emit or by "return" on the flag
RunEnded == ended # ""

\* C28: after a run ends (finished, error or cancellation observed) the
\* session eventually leaves the "analysis in progress" state: is_analyzing
\* returns to False, unless the application itself has ended.
C28_AnalysisEventuallyLeft == (RunEnded /\ Running) ~> (~is_analyzing \/ ~Running)

\* the same for the runs that end with a notification
C28_NotifiedRunEventuallyLeft ==
    (RunEnded /\ ended # "cancelled" /\ Running) ~> (~is_analyzing \/ ~Running)

\* is_analyzing is True only while a run is in flight
C28_AnalyzingOnlyInFlight == is_analyzing => InFlight

-----------------------------------------------------------------------------
(* Claims about desk marking, checked under Spec *)

\* the image widget shows a completed desk-marking session: the 4 corners
\* clicked since start_desk_marking
MarkingCompleted == Len(w_desk_corners) = 4

\* C29: the desk corners held by the calibration session always equal the
\* corners shown by the image widget, and when a desk-marking session is
\* completed (4 clicks since start_desk_marking) the calibration session holds
\* exactly those 4 corners and is_desk_complete() is true.
C29_DeskCornersAgree ==
    /\ desk_corners = w_desk_corners
    /\ MarkingCompleted => is_desk_complete(desk_corners)

\* a desk marked a second time: the calibration session holds the old corners
\* and the new one
C29_Remarked ==
    /\ Len(desk_corners) = 5
    /\ Len(w_desk_corners) = 1
    /\ ~is_desk_complete(desk_corners)

=============================================================================
